---- MODULE Spec2Model ----
(***************************************************************************)
(* Linmo kernel.  The subsystems, each with its own specification:         *)
(*                                                                         *)
(*  - Spec, SpecFair: the mutex m and the condition variable c of          *)
(*    kernel/mutex.c shared by the application tasks and the idle task on  *)
(*    the single-hart task scheduler;                                      *)
(*  - SpecSpin: the same calls with the spinlock of the mutex subsystem    *)
(*    and the interrupt enable of each task;                               *)
(*  - SpecPmp: the PMP engine of arch/riscv/pmp.c, its shadow              *)
(*    configuration and the pmpcfg / pmpaddr CSRs;                         *)
(*  - SpecBoot: pmp_init_kernel over the linked kernel memory pools,       *)
(*    followed by task switches;                                           *)
(*  - SpecFp: the flexpages and the memory space of kernel/memprot.c;      *)
(*  - SpecMq: the message queue of kernel/mqueue.c shared by the tasks;    *)
(*  - SpecTrap: the trap vector _isr of arch/riscv/boot.c on one hart      *)
(*    running a kernel-mode and a user-mode task; SpecNested: the same     *)
(*    with exceptions raised inside the trap handler;                      *)
(*  - SpecStarve: the mutex calls under a fair scheduler;                  *)
(*  - SpecEntry: the reset vector _entry run by every hart.                *)
(*                                                                         *)
(* A code section bracketed by spin_lock_irqsave / spin_unlock_irqrestore  *)
(* runs with interrupts disabled on the only hart, so it is one step.      *)
(* Between two such sections the timer interrupt may fire, so every gap    *)
(* between them is a position (pc) of the task.  The validation of an      *)
(* object (mutex_is_valid, cond_is_valid) is taken together with the       *)
(* critical section that follows it.                                       *)
(***************************************************************************)
EXTENDS Integers, Sequences, FiniteSets

\* ---- bounds -------------------------------------------------------------
NTasks == 2        \* application tasks spawned by app_main
MaxTicks == 2      \* largest timeout passed to a timed call
MaxWaiters == 3    \* longest waiter list explored
NFairTasks == 4    \* tasks of the mutex fairness scenario (D, A, B, C)
MaxRegion == 1     \* highest PMP region index configured
AddrBits == 2      \* width of an address
MaxItems == 2      \* capacity of the message queue
NMsgs == 2         \* distinct messages sent
NFpages == 2       \* flexpages allocated
MaxEcalls == 2     \* system calls the user task makes
NHarts == 2        \* harts released from reset
BssWords == 2      \* words of the .bss section

Idle == 0          \* id of the idle task

VARIABLES
    state,        \* tcb_t.state of every task
    delay,        \* tcb_t.delay of every task
    task_current, \* kcb->task_current
    preemptive,   \* kcb->preemptive
    panicked,     \* panic() was called (terminal)
    owner_tid,    \* m->owner_tid, 0 = free
    m_magic,      \* m->magic
    c_magic,      \* c->magic
    m_waiters,    \* m->waiters (FIFO list of tasks)
    c_waiters,    \* c->waiters (FIFO list of tasks)
    pc,           \* position of every task inside the call it is executing
    call,         \* the API call whose mo_mutex_lock slow path a task is in
    wait_status,  \* local wait_status of mo_cond_timedwait
    holds,        \* history: an acquire returned ERR_OK and no unlock since
    signalled,    \* history: popped by signal/broadcast during this wait
    due,          \* history: ticks still to elapse of the timeout asked for
    ev,           \* history: the last step taken
    regions,      \* pmp_config_t.regions: the shadow of the PMP entries
    region_count, \* pmp_config_t.region_count
    pmpcfg,       \* CSRs pmpcfg0..3, each as its four configuration bytes
    pmpaddr,      \* CSRs pmpaddr0..15
    pmp_ev,       \* history: the last PMP call, its arguments and result
    mq_q,         \* mq->q: the messages queued, oldest first
    mq_live,      \* the mq_t has been created and not freed
    mq_pc,        \* position of every task inside mo_mq_destroy
    mq_ev,        \* history: the last message queue step
    spin,         \* mutex_lock, mutex_flags and the tasks' interrupt enables
    kernel_mempools, \* the static pool table, its bounds set by the linker
    fpages,       \* the fpage_t objects malloc has handed out
    mspace,       \* the memspace_t object and its list of flexpages
    fp_ev,        \* history: the last flexpage call
    hart,         \* privilege mode, pc, sp, the trap CSRs and the registers
    mem,          \* the stack memory the trap frames live in
    tcb,          \* the task the hart runs and the saved frame of each task
    trap_pc,      \* position of the hart: running a task or inside _isr
    trap_hist,    \* history: last step, interrupted context, stores of _isr
    eh,           \* every hart's position in _entry, its a0, mtvec and mie
    bss_mem,      \* the words of .bss
    entry_ev      \* history: the last step of a hart in _entry or main

\* the tasks, the mutex m and the condition variable c
syncVars == <<state, delay, task_current, preemptive, panicked, owner_tid,
              m_magic, c_magic, m_waiters, c_waiters, pc, call, wait_status,
              holds, signalled, due, ev>>

\* the PMP shadow configuration and the PMP CSRs
pmpVars == <<regions, region_count, pmpcfg, pmpaddr, pmp_ev>>

\* the message queue
mqVars == <<mq_q, mq_live, mq_pc, mq_ev>>

\* the spinlock of the mutex subsystem
spinVars == <<spin>>

\* the linker-provided layout of the kernel image
linkVars == <<kernel_mempools>>

\* the flexpages and the memory space
fpVars == <<fpages, mspace, fp_ev>>

\* the hart and the trap frames
trapVars == <<hart, mem, tcb, trap_pc, trap_hist>>

\* the harts in the reset vector
entryVars == <<eh, bss_mem, entry_ev>>

vars == <<syncVars, pmpVars, mqVars, spinVars, linkVars, fpVars, trapVars,
          entryVars>>

\* kcb->tasks: the idle task and the application tasks
AllTasks == DOMAIN state

Tasks == AllTasks \ {Idle}

\* the state after main() has dispatched the idle task, with n tasks spawned
Boot(n) ==
    /\ state = [u \in 0..n |-> IF u = Idle THEN "RUNNING" ELSE "READY"]
    /\ delay = [u \in 0..n |-> 0]
    /\ task_current = Idle
    /\ preemptive \in BOOLEAN
    /\ panicked = FALSE
    /\ owner_tid = 0
    /\ m_magic = "MUTEX_MAGIC"
    /\ c_magic = "COND_MAGIC"
    /\ m_waiters = <<>>
    /\ c_waiters = <<>>
    /\ pc = [u \in 0..n |-> "top"]
    /\ call = [u \in 0..n |-> "none"]
    /\ wait_status = [u \in 0..n |-> "ERR_OK"]
    /\ holds = [u \in 0..n |-> FALSE]
    /\ signalled = [u \in 0..n |-> FALSE]
    /\ due = [u \in 0..n |-> 0]
    /\ ev = [kind |-> "step", task |-> Idle, op |-> "boot", res |-> "NONE",
             path |-> "none", left |-> 0, sig |-> FALSE]

\* ---- list helpers (lib/list.h) -----------------------------------------
list_is_empty(l) == Len(l) = 0

list_pushback(l, x) == Append(l, x)

InList(l, x) == \E i \in 1..Len(l) : l[i] = x

RECURSIVE RemoveFirst(_, _)
RemoveFirst(l, x) ==
    IF l = <<>> THEN <<>>
    ELSE IF Head(l) = x THEN Tail(l)
    ELSE <<Head(l)>> \o RemoveFirst(Tail(l), x)

\* remove_self_from_waiters: the list after the call (its boolean result is
\* InList(l, self))
remove_self_from_waiters(l, self) == RemoveFirst(l, self)

\* ---- history records ----------------------------------------------------
\* a step that is not a return to the caller
Step(t, what) ==
    [kind |-> "step", task |-> t, op |-> what, res |-> "NONE",
     path |-> "none", left |-> 0, sig |-> FALSE]

\* the API call `api` of task t returns val; path names the return site,
\* left the ticks of the timeout not yet elapsed, sig whether the task was
\* signalled during the call
Ret(t, api, val, path) ==
    [kind |-> "ret", task |-> t, op |-> api, res |-> val,
     path |-> path, left |-> due[t], sig |-> signalled[t]]

\* the per-call locals and history of t are reset when its call returns
ResetCall(t) ==
    /\ call' = [call EXCEPT ![t] = "none"]
    /\ wait_status' = [wait_status EXCEPT ![t] = "ERR_OK"]
    /\ signalled' = [signalled EXCEPT ![t] = FALSE]
    /\ due' = [due EXCEPT ![t] = 0]

\* ---- scheduler ----------------------------------------------------------
\* the running task goes back to READY; a task that marked itself BLOCKED
\* stays BLOCKED
MarkCurrent(st) ==
    IF st[task_current] = "RUNNING" THEN [st EXCEPT ![task_current] = "READY"] ELSE st

\* the idle task runs only when no application task is ready
Candidates(st) ==
    LET r == {u \in Tasks : st[u] = "READY"}
    IN IF r # {} THEN r ELSE {Idle}

\* sched_select_next_task + context switch, starting from task states st
Dispatch(st) ==
    LET st1 == MarkCurrent(st)
    IN \E nxt \in Candidates(st1) :
          /\ state' = [st1 EXCEPT ![nxt] = "RUNNING"]
          /\ task_current' = nxt

\* delay_update: one tick on every BLOCKED task that has a delay
DelayUpdate(st, dl) ==
    [u \in AllTasks |->
        IF st[u] = "BLOCKED" /\ dl[u] = 1 THEN "READY" ELSE st[u]]

DelayDec(st, dl) ==
    [u \in AllTasks |->
        IF st[u] = "BLOCKED" /\ dl[u] > 0 THEN dl[u] - 1 ELSE dl[u]]

Running(t) == ~panicked /\ task_current = t

\* mutex_is_valid(m): mo_mutex_destroy clears the magic tag and the waiter
\* list pointer together, so the tag decides
mutex_is_valid == m_magic = "MUTEX_MAGIC"

cond_is_valid == c_magic = "COND_MAGIC"

\* panic(ERR_SEM_OPERATION) in the API call `api` of task t on an invalid
\* object: the call never returns
InvalidPanic(t, api) ==
    /\ panicked' = TRUE
    /\ ev' = Ret(t, api, "PANIC", "invalid")
    /\ UNCHANGED <<state, delay, task_current, owner_tid, m_waiters, pc, call,
                   wait_status, holds, signalled, due>>

\* an API call of task t that returns ERR_FAIL on an invalid object
InvalidFail(t, api) ==
    /\ ev' = Ret(t, api, "ERR_FAIL", "invalid")
    /\ UNCHANGED <<state, delay, task_current, preemptive, panicked,
                   owner_tid, m_waiters, c_waiters, pc, call, wait_status,
                   holds, signalled, due>>

\* ---- mutex --------------------------------------------------------------
\* the value the API call `api` hands to its caller when its final
\* mo_mutex_lock returned val
ApiResult(t, api, val) ==
    IF api = "timedwait" /\ wait_status[t] = "ERR_TIMEOUT" THEN "ERR_TIMEOUT" ELSE val

\* mo_mutex_lock called by t on behalf of `api` ("lock" when called
\* directly, "wait"/"timedwait" for the re-acquisition of a cond wait)
LockCall(t, api) ==
    IF ~mutex_is_valid THEN InvalidPanic(t, api)
    ELSE IF owner_tid = t
    THEN \* non-recursive: reject
         /\ pc' = [pc EXCEPT ![t] = "top"]
         /\ ev' = Ret(t, api, ApiResult(t, api, "ERR_TASK_BUSY"), "busy")
         /\ ResetCall(t)
         /\ UNCHANGED <<state, delay, task_current, owner_tid, m_waiters,
                        holds, panicked>>
    ELSE IF owner_tid = 0
    THEN \* fast path
         /\ owner_tid' = t
         /\ holds' = [holds EXCEPT ![t] = TRUE]
         /\ pc' = [pc EXCEPT ![t] = "top"]
         /\ ev' = Ret(t, api, ApiResult(t, api, "ERR_OK"), "fast")
         /\ ResetCall(t)
         /\ UNCHANGED <<state, delay, task_current, m_waiters, panicked>>
    ELSE \* slow path: mutex_block_atomic.  The push, the state change and
         \* _yield() run with interrupts disabled, so they are one step; the
         \* context switch of _yield() ends the critical section.
         /\ Len(m_waiters) < MaxWaiters
         /\ m_waiters' = list_pushback(m_waiters, t)
         /\ Dispatch([state EXCEPT ![t] = "BLOCKED"])
         /\ pc' = [pc EXCEPT ![t] = "lock_woken"]
         /\ call' = [call EXCEPT ![t] = api]
         /\ ev' = Step(t, "block")
         /\ UNCHANGED <<delay, owner_tid, holds, panicked, wait_status,
                        signalled, due>>

mo_mutex_lock(t) ==
    /\ Running(t)
    /\ pc[t] = "top"
    /\ LockCall(t, "lock")
    /\ UNCHANGED <<preemptive, c_waiters>>

\* the slow path of mo_mutex_lock after _yield() has returned
mutex_lock_return(t) ==
    /\ Running(t)
    /\ pc[t] = "lock_woken"
    /\ pc' = [pc EXCEPT ![t] = "top"]
    /\ holds' = [holds EXCEPT ![t] = TRUE]
    /\ ev' = Ret(t, call[t], ApiResult(t, call[t], "ERR_OK"), "slow")
    /\ ResetCall(t)
    /\ UNCHANGED <<state, delay, task_current, preemptive, panicked,
                   owner_tid, m_waiters, c_waiters>>

\* mo_mutex_trylock taking the mutex again for the task that owns it
TrylockCall_Recursive(t, api) ==
    /\ IF owner_tid = t \/ owner_tid = 0 THEN
           /\ owner_tid' = t
           /\ holds' = [holds EXCEPT ![t] = TRUE]
           /\ ev' = Ret(t, api, "ERR_OK", "fast")
       ELSE
           /\ ev' = Ret(t, api, "ERR_TASK_BUSY", "busy")
           /\ UNCHANGED <<owner_tid, holds>>
    /\ UNCHANGED <<state, delay, task_current, preemptive, panicked,
                   m_waiters, c_waiters, pc, call, wait_status, signalled,
                   due>>

\* mo_mutex_trylock after the validation of m
TrylockCall(t, api) ==
    /\ IF owner_tid = t THEN
           /\ ev' = Ret(t, api, "ERR_TASK_BUSY", "busy")
           /\ UNCHANGED <<owner_tid, holds>>
       ELSE IF owner_tid = 0 THEN
           /\ owner_tid' = t
           /\ holds' = [holds EXCEPT ![t] = TRUE]
           /\ ev' = Ret(t, api, "ERR_OK", "fast")
       ELSE
           /\ ev' = Ret(t, api, "ERR_TASK_BUSY", "busy")
           /\ UNCHANGED <<owner_tid, holds>>
    /\ UNCHANGED <<state, delay, task_current, preemptive, panicked,
                   m_waiters, c_waiters, pc, call, wait_status, signalled,
                   due>>

\* mo_mutex_trylock without the validation of m
mo_mutex_trylock_Unvalidated(t) ==
    /\ Running(t)
    /\ pc[t] = "top"
    /\ TrylockCall(t, "trylock")

mo_mutex_trylock(t) ==
    /\ Running(t)
    /\ pc[t] = "top"
    /\ IF ~mutex_is_valid THEN InvalidFail(t, "trylock")
       ELSE TrylockCall(t, "trylock")

\* mo_mutex_unlock handing the mutex to the task that blocked last
UnlockEffect_Lifo(t, st) ==
    IF ~mutex_is_valid THEN
        <<"ERR_FAIL", owner_tid, m_waiters, st, delay>>
    ELSE IF owner_tid # t THEN
        <<"ERR_NOT_OWNER", owner_tid, m_waiters, st, delay>>
    ELSE IF list_is_empty(m_waiters) THEN
        <<"ERR_OK", 0, m_waiters, st, delay>>
    ELSE LET next_owner == m_waiters[Len(m_waiters)]
             rest == SubSeq(m_waiters, 1, Len(m_waiters) - 1) IN
        IF st[next_owner] = "BLOCKED" THEN
            <<"ERR_OK", next_owner, rest,
              [st EXCEPT ![next_owner] = "READY"],
              [delay EXCEPT ![next_owner] = 0]>>
        ELSE
            <<"PANIC", owner_tid, rest, st, delay>>

\* mo_mutex_unlock waking the head waiter and leaving the mutex free
UnlockEffect_WakeOnly(t, st) ==
    IF ~mutex_is_valid THEN
        <<"ERR_FAIL", owner_tid, m_waiters, st, delay>>
    ELSE IF owner_tid # t THEN
        <<"ERR_NOT_OWNER", owner_tid, m_waiters, st, delay>>
    ELSE IF list_is_empty(m_waiters) THEN
        <<"ERR_OK", 0, m_waiters, st, delay>>
    ELSE LET next_owner == Head(m_waiters) IN
        IF st[next_owner] = "BLOCKED" THEN
            <<"ERR_OK", 0, Tail(m_waiters),
              [st EXCEPT ![next_owner] = "READY"],
              [delay EXCEPT ![next_owner] = 0]>>
        ELSE
            <<"PANIC", owner_tid, Tail(m_waiters), st, delay>>

\* what mo_mutex_unlock called by t does to the mutex and the tasks:
\* <<result, owner_tid, m_waiters, state, delay>>
UnlockEffect(t, st) ==
    IF ~mutex_is_valid THEN
        <<"ERR_FAIL", owner_tid, m_waiters, st, delay>>
    ELSE IF owner_tid # t THEN
        <<"ERR_NOT_OWNER", owner_tid, m_waiters, st, delay>>
    ELSE IF list_is_empty(m_waiters) THEN
        <<"ERR_OK", 0, m_waiters, st, delay>>
    ELSE LET next_owner == Head(m_waiters) IN
        IF st[next_owner] = "BLOCKED" THEN
            <<"ERR_OK", next_owner, Tail(m_waiters),
              [st EXCEPT ![next_owner] = "READY"],
              [delay EXCEPT ![next_owner] = 0]>>
        ELSE
            <<"PANIC", owner_tid, Tail(m_waiters), st, delay>>

mo_mutex_unlock(t) ==
    /\ Running(t)
    /\ pc[t] = "top"
    /\ LET r == UnlockEffect(t, state) IN
        /\ owner_tid' = r[2]
        /\ m_waiters' = r[3]
        /\ state' = r[4]
        /\ delay' = r[5]
        /\ panicked' = (r[1] = "PANIC")
        /\ holds' = IF r[1] = "ERR_OK" THEN [holds EXCEPT ![t] = FALSE] ELSE holds
        /\ ev' = Ret(t, "unlock", r[1],
                     IF r[1] = "ERR_FAIL" THEN "invalid" ELSE "unlock")
    /\ UNCHANGED <<task_current, preemptive, c_waiters, pc, call,
                   wait_status, signalled, due>>

\* mo_mutex_timedlock up to the end of its first critical section
mo_mutex_timedlock(t, ticks) ==
    /\ Running(t)
    /\ pc[t] = "top"
    /\ IF ~mutex_is_valid THEN InvalidFail(t, "timedlock")
       ELSE IF ticks = 0 THEN TrylockCall(t, "timedlock")
       ELSE IF owner_tid = t THEN
           /\ ev' = Ret(t, "timedlock", "ERR_TASK_BUSY", "busy")
           /\ UNCHANGED <<state, delay, task_current, preemptive, panicked,
                          owner_tid, m_waiters, c_waiters, pc, call,
                          wait_status, holds, signalled, due>>
       ELSE IF owner_tid = 0 THEN
           /\ owner_tid' = t
           /\ holds' = [holds EXCEPT ![t] = TRUE]
           /\ ev' = Ret(t, "timedlock", "ERR_OK", "fast")
           /\ UNCHANGED <<state, delay, task_current, preemptive, panicked,
                          m_waiters, c_waiters, pc, call, wait_status,
                          signalled, due>>
       ELSE
           /\ Len(m_waiters) < MaxWaiters
           /\ m_waiters' = list_pushback(m_waiters, t)
           /\ delay' = [delay EXCEPT ![t] = ticks]
           /\ state' = [state EXCEPT ![t] = "BLOCKED"]
           /\ due' = [due EXCEPT ![t] = ticks]
           /\ pc' = [pc EXCEPT ![t] = "tl_yield"]
           /\ ev' = Step(t, "timedlock_block")
           /\ UNCHANGED <<task_current, preemptive, panicked, owner_tid,
                          c_waiters, call, wait_status, holds, signalled>>

\* mo_task_yield() called by a blocking primitive at position from
PrimitiveYield(t, from, to) ==
    /\ Running(t)
    /\ pc[t] = from
    /\ Dispatch(state)
    /\ pc' = [pc EXCEPT ![t] = to]
    /\ ev' = Step(t, "yield")
    /\ UNCHANGED <<delay, preemptive, panicked, owner_tid, m_waiters,
                   c_waiters, call, wait_status, holds, signalled, due>>

timedlock_yield(t) == PrimitiveYield(t, "tl_yield", "tl_wake")

\* the result mo_mutex_timedlock computes after waking up
TimedlockResult(t) ==
    IF state[t] = "BLOCKED" THEN
        IF InList(m_waiters, t) THEN "ERR_TIMEOUT"
        ELSE IF owner_tid = t THEN "ERR_OK" ELSE "ERR_TIMEOUT"
    ELSE IF owner_tid = t THEN "ERR_OK" ELSE "ERR_FAIL"

\* mo_mutex_timedlock: the critical section after waking up, and the return
timedlock_wake(t) ==
    /\ Running(t)
    /\ pc[t] = "tl_wake"
    /\ IF state[t] = "BLOCKED" /\ InList(m_waiters, t) THEN
           /\ m_waiters' = remove_self_from_waiters(m_waiters, t)
           /\ state' = [state EXCEPT ![t] = "READY"]
       ELSE UNCHANGED <<m_waiters, state>>
    /\ holds' = IF TimedlockResult(t) = "ERR_OK"
                THEN [holds EXCEPT ![t] = TRUE] ELSE holds
    /\ pc' = [pc EXCEPT ![t] = "top"]
    /\ ev' = Ret(t, "timedlock", TimedlockResult(t), "slow")
    /\ ResetCall(t)
    /\ UNCHANGED <<delay, task_current, preemptive, panicked, owner_tid,
                   c_waiters>>

\* ---- condition variable -------------------------------------------------
\* mo_cond_wait / mo_cond_timedwait up to the end of the first critical
\* section; ticks = 0 stands for the untimed mo_cond_wait
CondEnqueue(t, api, ticks, to) ==
    IF owner_tid # t THEN
        /\ ev' = Ret(t, api, "ERR_NOT_OWNER", "early")
        /\ UNCHANGED <<state, delay, task_current, preemptive, panicked,
                       owner_tid, m_waiters, c_waiters, pc, call,
                       wait_status, holds, signalled, due>>
    ELSE
        /\ Len(c_waiters) < MaxWaiters
        /\ c_waiters' = list_pushback(c_waiters, t)
        /\ delay' = IF api = "timedwait" THEN [delay EXCEPT ![t] = ticks] ELSE delay
        /\ state' = [state EXCEPT ![t] = "BLOCKED"]
        /\ due' = [due EXCEPT ![t] = ticks]
        /\ pc' = [pc EXCEPT ![t] = to]
        /\ ev' = Step(t, "cond_block")
        /\ UNCHANGED <<task_current, preemptive, panicked, owner_tid,
                       m_waiters, call, wait_status, holds, signalled>>

mo_cond_wait(t) ==
    /\ Running(t)
    /\ pc[t] = "top"
    /\ IF ~cond_is_valid \/ ~mutex_is_valid THEN
           InvalidPanic(t, "wait") /\ UNCHANGED <<preemptive, c_waiters>>
       ELSE CondEnqueue(t, "wait", 0, "cw_unlock")

mo_cond_timedwait(t, ticks) ==
    /\ Running(t)
    /\ pc[t] = "top"
    /\ IF ~cond_is_valid \/ ~mutex_is_valid THEN
           InvalidPanic(t, "timedwait") /\ UNCHANGED <<preemptive, c_waiters>>
       ELSE IF owner_tid = t /\ ticks = 0 THEN
           /\ ev' = Ret(t, "timedwait", "ERR_TIMEOUT", "early")
           /\ UNCHANGED <<state, delay, task_current, preemptive, panicked,
                          owner_tid, m_waiters, c_waiters, pc, call,
                          wait_status, holds, signalled, due>>
       ELSE CondEnqueue(t, "timedwait", ticks, "ctw_unlock")

\* the release of m inside a cond wait, with the cleanup when it fails
CondRelease(t, api, from, to) ==
    /\ Running(t)
    /\ pc[t] = from
    /\ LET r == UnlockEffect(t, state) IN
        /\ owner_tid' = r[2]
        /\ m_waiters' = r[3]
        /\ panicked' = (r[1] = "PANIC")
        /\ IF r[1] \in {"ERR_NOT_OWNER", "ERR_FAIL"} THEN
               /\ c_waiters' = remove_self_from_waiters(c_waiters, t)
               /\ state' = [r[4] EXCEPT ![t] = "READY"]
               /\ delay' = IF api = "timedwait"
                           THEN [r[5] EXCEPT ![t] = 0] ELSE r[5]
               /\ pc' = [pc EXCEPT ![t] = "top"]
               /\ ev' = Ret(t, api, r[1], "early")
               /\ ResetCall(t)
               /\ UNCHANGED holds
           ELSE
               /\ state' = r[4]
               /\ delay' = r[5]
               /\ holds' = IF r[1] = "ERR_OK"
                           THEN [holds EXCEPT ![t] = FALSE] ELSE holds
               /\ pc' = [pc EXCEPT ![t] = IF r[1] = "ERR_OK" THEN to ELSE from]
               /\ ev' = Step(t, "cond_release")
               /\ UNCHANGED <<c_waiters, call, wait_status, signalled, due>>
    /\ UNCHANGED <<task_current, preemptive>>

cond_wait_unlock(t) == CondRelease(t, "wait", "cw_unlock", "cw_yield")

cond_wait_yield(t) == PrimitiveYield(t, "cw_yield", "cw_lock")

cond_wait_relock(t) ==
    /\ Running(t)
    /\ pc[t] = "cw_lock"
    /\ LockCall(t, "wait")
    /\ UNCHANGED <<preemptive, c_waiters>>

cond_timedwait_unlock(t) == CondRelease(t, "timedwait", "ctw_unlock", "ctw_yield")

cond_timedwait_yield(t) == PrimitiveYield(t, "ctw_yield", "ctw_wake")

\* mo_cond_timedwait: the critical section that determines why it woke up
cond_timedwait_wake(t) ==
    /\ Running(t)
    /\ pc[t] = "ctw_wake"
    /\ IF state[t] = "BLOCKED" THEN
           /\ c_waiters' = remove_self_from_waiters(c_waiters, t)
           /\ state' = [state EXCEPT ![t] = "READY"]
           /\ delay' = [delay EXCEPT ![t] = 0]
           /\ wait_status' = [wait_status EXCEPT ![t] = "ERR_TIMEOUT"]
       ELSE
           /\ wait_status' = [wait_status EXCEPT ![t] = "ERR_OK"]
           /\ UNCHANGED <<c_waiters, state, delay>>
    /\ pc' = [pc EXCEPT ![t] = "ctw_lock"]
    /\ ev' = Step(t, "cond_woken")
    /\ UNCHANGED <<task_current, preemptive, panicked, owner_tid,
                   m_waiters, call, holds, signalled, due>>

cond_timedwait_relock(t) ==
    /\ Running(t)
    /\ pc[t] = "ctw_lock"
    /\ LockCall(t, "timedwait")
    /\ UNCHANGED <<preemptive, c_waiters>>

\* mo_cond_signal dispatching the woken waiter on the spot
RECURSIVE WakeEffect_Runs(_, _, _, _, _)
WakeEffect_Runs(l, k, st, dl, sg) ==
    IF k = 0 \/ list_is_empty(l) THEN <<FALSE, l, st, dl, sg>>
    ELSE LET waiter == Head(l) IN
        IF st[waiter] = "BLOCKED" THEN
            WakeEffect_Runs(Tail(l), k - 1,
                            [st EXCEPT ![waiter] = "RUNNING"],
                            [dl EXCEPT ![waiter] = 0],
                            [sg EXCEPT ![waiter] = TRUE])
        ELSE <<TRUE, Tail(l), st, dl, sg>>

\* popping waiters off c: <<panic, waiters left, state, delay, signalled>>
\* after waking the first k waiters of l (all of them for broadcast)
RECURSIVE WakeEffect(_, _, _, _, _)
WakeEffect(l, k, st, dl, sg) ==
    IF k = 0 \/ list_is_empty(l) THEN <<FALSE, l, st, dl, sg>>
    ELSE LET waiter == Head(l) IN
        IF st[waiter] = "BLOCKED" THEN
            WakeEffect(Tail(l), k - 1,
                       [st EXCEPT ![waiter] = "READY"],
                       [dl EXCEPT ![waiter] = 0],
                       [sg EXCEPT ![waiter] = TRUE])
        ELSE <<TRUE, Tail(l), st, dl, sg>>

CondWake(t, api, k) ==
    /\ Running(t)
    /\ pc[t] = "top"
    /\ IF ~cond_is_valid THEN InvalidFail(t, api)
       ELSE
        LET r == WakeEffect(c_waiters, k, state, delay, signalled) IN
        /\ panicked' = r[1]
        /\ c_waiters' = r[2]
        /\ state' = r[3]
        /\ delay' = r[4]
        /\ signalled' = r[5]
        /\ ev' = Ret(t, api, IF r[1] THEN "PANIC" ELSE "ERR_OK", api)
        /\ UNCHANGED <<task_current, preemptive, owner_tid, m_waiters, pc,
                       call, wait_status, holds, due>>

mo_cond_signal(t) == CondWake(t, "signal", 1)

mo_cond_broadcast(t) == CondWake(t, "broadcast", Len(c_waiters))

\* ---- destruction ------------------------------------------------------
\* mo_mutex_destroy without the check of the owner
mo_mutex_destroy_Owned(t) ==
    /\ Running(t)
    /\ pc[t] = "top"
    /\ IF ~mutex_is_valid THEN
           /\ ev' = Ret(t, "mutex_destroy", "ERR_FAIL", "invalid")
           /\ UNCHANGED <<m_magic, owner_tid, m_waiters>>
       ELSE IF ~list_is_empty(m_waiters) THEN
           /\ ev' = Ret(t, "mutex_destroy", "ERR_TASK_BUSY", "destroy")
           /\ UNCHANGED <<m_magic, owner_tid, m_waiters>>
       ELSE
           /\ m_magic' = "0xDEADBEEF"
           /\ m_waiters' = <<>>
           /\ owner_tid' = 0
           /\ ev' = Ret(t, "mutex_destroy", "ERR_OK", "destroy")
    /\ UNCHANGED <<state, delay, task_current, preemptive, panicked, c_magic,
                   c_waiters, pc, call, wait_status, holds, signalled, due>>

\* mo_mutex_destroy: refused while tasks wait or a task owns m
mo_mutex_destroy(t) ==
    /\ Running(t)
    /\ pc[t] = "top"
    /\ IF ~mutex_is_valid THEN
           /\ ev' = Ret(t, "mutex_destroy", "ERR_FAIL", "invalid")
           /\ UNCHANGED <<m_magic, owner_tid, m_waiters>>
       ELSE IF ~list_is_empty(m_waiters) \/ owner_tid # 0 THEN
           /\ ev' = Ret(t, "mutex_destroy", "ERR_TASK_BUSY", "destroy")
           /\ UNCHANGED <<m_magic, owner_tid, m_waiters>>
       ELSE
           /\ m_magic' = "0xDEADBEEF"
           /\ m_waiters' = <<>>
           /\ owner_tid' = 0
           /\ ev' = Ret(t, "mutex_destroy", "ERR_OK", "destroy")
    /\ UNCHANGED <<state, delay, task_current, preemptive, panicked, c_magic,
                   c_waiters, pc, call, wait_status, holds, signalled, due>>

\* mo_cond_destroy: refused while tasks wait
mo_cond_destroy(t) ==
    /\ Running(t)
    /\ pc[t] = "top"
    /\ IF ~cond_is_valid THEN
           /\ ev' = Ret(t, "cond_destroy", "ERR_FAIL", "invalid")
           /\ UNCHANGED <<c_magic, c_waiters>>
       ELSE IF ~list_is_empty(c_waiters) THEN
           /\ ev' = Ret(t, "cond_destroy", "ERR_TASK_BUSY", "destroy")
           /\ UNCHANGED <<c_magic, c_waiters>>
       ELSE
           /\ c_magic' = "0xDEADBEEF"
           /\ c_waiters' = <<>>
           /\ ev' = Ret(t, "cond_destroy", "ERR_OK", "destroy")
    /\ UNCHANGED <<state, delay, task_current, preemptive, panicked, m_magic,
                   owner_tid, m_waiters, pc, call, wait_status, holds,
                   signalled, due>>

\* ---- scheduler entry points --------------------------------------------
mo_task_yield(t) ==
    /\ Running(t)
    /\ t \in Tasks
    /\ pc[t] = "top"
    /\ Dispatch(state)
    /\ ev' = Step(t, "yield")
    /\ UNCHANGED <<delay, preemptive, panicked, owner_tid, m_waiters,
                   c_waiters, pc, call, wait_status, holds, signalled, due>>

\* the idle task only yields
idle_task ==
    /\ Running(Idle)
    /\ Dispatch(state)
    /\ ev' = Step(Idle, "yield")
    /\ UNCHANGED <<delay, preemptive, panicked, owner_tid, m_waiters,
                   c_waiters, pc, call, wait_status, holds, signalled, due>>

\* timer interrupt: scheduler tick, then preemption if enabled
timer_tick ==
    /\ ~panicked
    /\ delay' = DelayDec(state, delay)
    /\ due' = [u \in AllTasks |-> IF due[u] > 0 THEN due[u] - 1 ELSE 0]
    /\ IF preemptive
       THEN \E st \in {DelayUpdate(state, delay)} : Dispatch(st)
       ELSE /\ state' = DelayUpdate(state, delay)
            /\ UNCHANGED task_current
    /\ ev' = Step(Idle, "tick")
    /\ UNCHANGED <<preemptive, panicked, owner_tid, m_waiters, c_waiters,
                   pc, call, wait_status, holds, signalled>>

\* ---- PMP engine (arch/riscv/pmp.c) -------------------------------------
PMP_MAX_REGIONS == 16

PMPCFG_R == 1

PMPCFG_W == 2

PMPCFG_X == 4

PMPCFG_A_MASK == 24

PMPCFG_A_TOR == 8

PMPCFG_L == 128

PMP_PRIORITY_KERNEL == 0

PMP_PRIORITY_STACK == 1

PMP_PRIORITY_TEMPORARY == 3

\* addresses and sizes are uint32_t in the code and AddrBits wide here, with
\* the same wrap-around arithmetic
AddrMod == 2 ^ AddrBits

\* bitwise & and | of two unsigned values
RECURSIVE BitAnd(_, _)
BitAnd(a, b) ==
    IF a = 0 \/ b = 0 THEN 0
    ELSE 2 * BitAnd(a \div 2, b \div 2) + (a % 2) * (b % 2)

RECURSIVE BitOr(_, _)
BitOr(a, b) ==
    IF a = 0 THEN b
    ELSE IF b = 0 THEN a
    ELSE 2 * BitOr(a \div 2, b \div 2) + (IF a % 2 = 1 \/ b % 2 = 1 THEN 1 ELSE 0)

RegionSlots == 0..(PMP_MAX_REGIONS - 1)

\* pmp_get_cfg_indices: the pmpcfg register of a region and the byte of the
\* register (cfg_offset / 8) that configures it
cfg_idx(region_idx) == region_idx \div 4

cfg_lane(region_idx) == region_idx % 4

\* the configuration byte of a region as the hardware holds it
CfgByte(cfg, region_idx) == cfg[cfg_idx(region_idx)][cfg_lane(region_idx)]

\* byte j of the 32-bit value (v << offset), for a byte v
ShlByte(v, offset, j) ==
    IF offset >= 8 * j + 8 THEN 0
    ELSE IF offset >= 8 * j THEN (v * 2 ^ (offset - 8 * j)) % 256
    ELSE (v \div 2 ^ (8 * j - offset)) % 256

\* byte j of (pmpcfg_val & ~(0xFF << offset)) | (byte << offset), where old
\* is byte j of pmpcfg_val
RmwByte(old, byte, offset, j) ==
    BitOr(BitAnd(old, 255 - ShlByte(255, offset, j)), ShlByte(byte, offset, j))

\* the read-modify-write of pmpcfg without the read: the register becomes
\* byte << offset
WriteCfgByte_Overwrite(cfg, region_idx, byte) ==
    [cfg EXCEPT
        ![cfg_idx(region_idx)][0] = ShlByte(byte, cfg_lane(region_idx) * 8, 0),
        ![cfg_idx(region_idx)][1] = ShlByte(byte, cfg_lane(region_idx) * 8, 1),
        ![cfg_idx(region_idx)][2] = ShlByte(byte, cfg_lane(region_idx) * 8, 2),
        ![cfg_idx(region_idx)][3] = ShlByte(byte, cfg_lane(region_idx) * 8, 3)]

\* pmpcfg_val = read_pmpcfg(idx); pmpcfg_val &= ~(0xFF << offset);
\* pmpcfg_val |= byte << offset; write_pmpcfg(idx, pmpcfg_val), computed
\* on the four bytes of the register
WriteCfgByte(cfg, region_idx, byte) ==
    [cfg EXCEPT
        ![cfg_idx(region_idx)][0] = RmwByte(@, byte, cfg_lane(region_idx) * 8, 0),
        ![cfg_idx(region_idx)][1] = RmwByte(@, byte, cfg_lane(region_idx) * 8, 1),
        ![cfg_idx(region_idx)][2] = RmwByte(@, byte, cfg_lane(region_idx) * 8, 2),
        ![cfg_idx(region_idx)][3] = RmwByte(@, byte, cfg_lane(region_idx) * 8, 3)]

\* the PMP state the engine works on: the shadow and the CSRs
PmpState ==
    [regions |-> regions, region_count |-> region_count,
     pmpcfg |-> pmpcfg, pmpaddr |-> pmpaddr]

\* the static pmp_global_config (zero-initialised) and the CSRs after reset
PmpReset ==
    [regions |-> [i \in RegionSlots |->
                    [addr_start |-> 0, addr_end |-> 0, permissions |-> 0,
                     priority |-> 0, region_id |-> 0, locked |-> 0]],
     region_count |-> 0,
     pmpcfg |-> [i \in 0..3 |-> [j \in 0..3 |-> 0]],
     pmpaddr |-> [i \in RegionSlots |-> 0]]

\* pmp_init: <<result, state after the call>>
pmp_init(s) ==
    <<"ERR_OK",
      [regions |-> [i \in RegionSlots |->
                      [addr_start |-> 0, addr_end |-> 0, permissions |-> 0,
                       priority |-> PMP_PRIORITY_TEMPORARY, region_id |-> i,
                       locked |-> 0]],
       region_count |-> 0,
       pmpcfg |-> [i \in 0..3 |-> [j \in 0..3 |-> 0]],
       pmpaddr |-> [i \in RegionSlots |-> 0]]>>

\* pmp_set_region once the region is accepted: the CSR writes and the
\* update of the shadow
SetRegionWrite(s, region) ==
    LET region_idx == region.region_id
        pmpcfg_perm == BitAnd(region.permissions,
                              BitOr(PMPCFG_R, BitOr(PMPCFG_W, PMPCFG_X)))
        tor == BitOr(PMPCFG_A_TOR, pmpcfg_perm)
        pmpcfg_byte == IF region.locked # 0 THEN BitOr(tor, PMPCFG_L) ELSE tor
    IN [regions |-> [s.regions EXCEPT ![region_idx] =
                       [addr_start |-> region.addr_start,
                        addr_end |-> region.addr_end,
                        permissions |-> region.permissions,
                        priority |-> region.priority,
                        region_id |-> region_idx,
                        locked |-> region.locked]],
        region_count |-> IF region_idx >= s.region_count
                         THEN region_idx + 1 ELSE s.region_count,
        pmpcfg |-> WriteCfgByte(s.pmpcfg, region_idx, pmpcfg_byte),
        pmpaddr |-> [s.pmpaddr EXCEPT ![region_idx] = region.addr_end]]

\* pmp_set_region testing the lock before the address range
pmp_set_region_LockFirst(s, region) ==
    IF region.region_id >= PMP_MAX_REGIONS THEN <<"ERR_PMP_INVALID_REGION", s>>
    ELSE IF s.regions[region.region_id].locked # 0 THEN <<"ERR_PMP_LOCKED", s>>
    ELSE IF region.addr_start >= region.addr_end THEN <<"ERR_PMP_ADDR_RANGE", s>>
    ELSE <<"ERR_OK", SetRegionWrite(s, region)>>

\* pmp_set_region: <<result, state after the call>>
pmp_set_region(s, region) ==
    IF region.region_id >= PMP_MAX_REGIONS THEN <<"ERR_PMP_INVALID_REGION", s>>
    ELSE IF region.addr_start >= region.addr_end THEN <<"ERR_PMP_ADDR_RANGE", s>>
    ELSE IF s.regions[region.region_id].locked # 0 THEN <<"ERR_PMP_LOCKED", s>>
    ELSE <<"ERR_OK", SetRegionWrite(s, region)>>

\* pmp_disable_region without the test of the lock
pmp_disable_region_Unchecked(s, region_idx) ==
    IF region_idx >= PMP_MAX_REGIONS THEN <<"ERR_PMP_INVALID_REGION", s>>
    ELSE <<"ERR_OK",
           [s EXCEPT !.regions[region_idx].addr_start = 0,
                     !.regions[region_idx].addr_end = 0,
                     !.regions[region_idx].permissions = 0,
                     !.pmpcfg = WriteCfgByte(s.pmpcfg, region_idx, 0)]>>

\* pmp_disable_region: <<result, state after the call>>
pmp_disable_region(s, region_idx) ==
    IF region_idx >= PMP_MAX_REGIONS THEN <<"ERR_PMP_INVALID_REGION", s>>
    ELSE IF s.regions[region_idx].locked # 0 THEN <<"ERR_PMP_LOCKED", s>>
    ELSE <<"ERR_OK",
           [s EXCEPT !.regions[region_idx].addr_start = 0,
                     !.regions[region_idx].addr_end = 0,
                     !.regions[region_idx].permissions = 0,
                     !.pmpcfg = WriteCfgByte(s.pmpcfg, region_idx, 0)]>>

\* pmp_lock_region setting the lock in the shadow only
pmp_lock_region_ShadowOnly(s, region_idx) ==
    IF region_idx >= PMP_MAX_REGIONS THEN <<"ERR_PMP_INVALID_REGION", s>>
    ELSE <<"ERR_OK", [s EXCEPT !.regions[region_idx].locked = 1]>>

\* pmp_lock_region: <<result, state after the call>>
pmp_lock_region(s, region_idx) ==
    IF region_idx >= PMP_MAX_REGIONS THEN <<"ERR_PMP_INVALID_REGION", s>>
    ELSE <<"ERR_OK",
           [s EXCEPT !.regions[region_idx].locked = 1,
                     !.pmpcfg = WriteCfgByte(s.pmpcfg, region_idx,
                                    BitOr(CfgByte(s.pmpcfg, region_idx), PMPCFG_L))]>>

\* the region pmp_get_region leaves untouched when it fails
NoRegion ==
    [addr_start |-> 0, addr_end |-> 0, permissions |-> 0, priority |-> 0,
     region_id |-> 0, locked |-> 0]

\* pmp_get_region reporting every region as unlocked
pmp_get_region_Unlocked(s, region_idx) ==
    IF region_idx >= PMP_MAX_REGIONS THEN <<"ERR_PMP_INVALID_REGION", NoRegion>>
    ELSE <<"ERR_OK", [s.regions[region_idx] EXCEPT !.region_id = region_idx,
                                                   !.locked = 0]>>

\* pmp_get_region: <<result, *region after the call>>
pmp_get_region(s, region_idx) ==
    IF region_idx >= PMP_MAX_REGIONS THEN <<"ERR_PMP_INVALID_REGION", NoRegion>>
    ELSE <<"ERR_OK",
           [addr_start |-> s.regions[region_idx].addr_start,
            addr_end |-> s.regions[region_idx].addr_end,
            permissions |-> s.regions[region_idx].permissions,
            priority |-> s.regions[region_idx].priority,
            region_id |-> region_idx,
            locked |-> s.regions[region_idx].locked]>>

\* the permission bits pmp_check_access requires for an access
required_perm(is_write, is_execute) ==
    IF ~is_write /\ ~is_execute THEN PMPCFG_R
    ELSE BitOr(IF is_write THEN PMPCFG_W ELSE 0,
               IF is_execute THEN PMPCFG_X ELSE 0)

\* the loop of pmp_check_access from region i on
RECURSIVE CheckFrom(_, _, _, _, _)
CheckFrom(s, i, addr, access_end, req) ==
    IF i >= s.region_count THEN 0
    ELSE LET region == s.regions[i] IN
        IF region.addr_start = 0 /\ region.addr_end = 0
        THEN CheckFrom(s, i + 1, addr, access_end, req)
        ELSE IF addr >= region.addr_start /\ access_end <= region.addr_end
        THEN (IF BitAnd(region.permissions, req) = req THEN 1 ELSE 0)
        ELSE CheckFrom(s, i + 1, addr, access_end, req)

\* pmp_check_access: 1 allowed, 0 denied; addr + size wraps as uint32_t does
pmp_check_access(s, addr, size, is_write, is_execute) ==
    CheckFrom(s, 0, addr, (addr + size) % AddrMod,
              required_perm(is_write, is_execute))

\* pmp_init_pools numbering the regions from 1
RECURSIVE SetPools_FromOne(_, _, _)
SetPools_FromOne(s, pools, i) ==
    IF i > Len(pools) THEN <<"ERR_OK", s>>
    ELSE LET pool == pools[i] IN
        IF pool.start >= pool.end THEN <<"ERR_PMP_ADDR_RANGE", s>>
        ELSE LET r == pmp_set_region(s,
                        [addr_start |-> pool.start, addr_end |-> pool.end,
                         permissions |-> BitAnd(pool.flags,
                             BitOr(PMPCFG_R, BitOr(PMPCFG_W, PMPCFG_X))),
                         priority |-> pool.tag, region_id |-> i,
                         locked |-> 0])
             IN IF r[1] # "ERR_OK" THEN r
                ELSE SetPools_FromOne(r[2], pools, i + 1)

\* pmp_init_pools: pmp_init, then one region per pool until one is refused
RECURSIVE SetPools(_, _, _)
SetPools(s, pools, i) ==
    IF i > Len(pools) THEN <<"ERR_OK", s>>
    ELSE LET pool == pools[i] IN
        IF pool.start >= pool.end THEN <<"ERR_PMP_ADDR_RANGE", s>>
        ELSE LET r == pmp_set_region(s,
                        [addr_start |-> pool.start, addr_end |-> pool.end,
                         permissions |-> BitAnd(pool.flags,
                             BitOr(PMPCFG_R, BitOr(PMPCFG_W, PMPCFG_X))),
                         priority |-> pool.tag, region_id |-> i - 1,
                         locked |-> 0])
             IN IF r[1] # "ERR_OK" THEN r ELSE SetPools(r[2], pools, i + 1)

pmp_init_pools(s, pools) ==
    IF Len(pools) = 0 THEN <<"ERR_PMP_INVALID_REGION", s>>
    ELSE SetPools(pmp_init(s)[2], pools, 1)

\* pmp_init_kernel: pmp_init_pools on the static kernel_mempools
pmp_init_kernel(s) == pmp_init_pools(s, kernel_mempools)

\* ---- PMP calls and their arguments ------------------------------------
\* region indexes passed to the calls: the first slots and one out of range
RegionIdInputs == (0..MaxRegion) \cup {PMP_MAX_REGIONS}

\* <<addr_start, addr_end>> passed to pmp_set_region: two overlapping
\* ranges, an empty one and an inverted one
Ranges ==
    {<<0, AddrMod - 2>>, <<1, AddrMod - 1>>,
     <<AddrMod - 2, AddrMod - 2>>, <<AddrMod - 1, 1>>}

PermInputs ==
    {PMPCFG_R, PMPCFG_X, BitOr(PMPCFG_R, BitOr(PMPCFG_W, PMPCFG_X))}

PriorityInputs == {PMP_PRIORITY_STACK}

RegionInputs ==
    {[addr_start |-> a[1], addr_end |-> a[2], permissions |-> p,
      priority |-> q, region_id |-> i, locked |-> l] :
        a \in Ranges, p \in PermInputs, q \in PriorityInputs,
        i \in RegionIdInputs, l \in 0..1}

\* memory pools passed to pmp_init_pools
PoolInputs ==
    {[start |-> a[1], end |-> a[2], flags |-> p, tag |-> PMP_PRIORITY_KERNEL] :
        a \in Ranges, p \in {BitOr(PMPCFG_R, PMPCFG_W)}}

PoolLists ==
    {<<>>} \cup {<<a>> : a \in PoolInputs}
           \cup {<<a, b>> : a \in PoolInputs, b \in PoolInputs}

\* the record of a PMP call
PmpCall(what, idx, val) ==
    [op |-> what, idx |-> idx, res |-> val, out |-> NoRegion, allowed |-> 0]

\* a call that returned r = <<result, state after the call>>
PmpApply(what, idx, r) ==
    /\ regions' = r[2].regions
    /\ region_count' = r[2].region_count
    /\ pmpcfg' = r[2].pmpcfg
    /\ pmpaddr' = r[2].pmpaddr
    /\ pmp_ev' = PmpCall(what, idx, r[1])

call_pmp_init == PmpApply("init", 0, pmp_init(PmpState))

call_pmp_init_pools(pools) ==
    PmpApply("init_pools", 0, pmp_init_pools(PmpState, pools))

call_pmp_set_region(region) ==
    PmpApply("set", region.region_id, pmp_set_region(PmpState, region))

call_pmp_disable_region(region_idx) ==
    PmpApply("disable", region_idx, pmp_disable_region(PmpState, region_idx))

call_pmp_lock_region(region_idx) ==
    PmpApply("lock", region_idx, pmp_lock_region(PmpState, region_idx))

call_pmp_get_region(region_idx) ==
    /\ pmp_ev' = [PmpCall("get", region_idx, pmp_get_region(PmpState, region_idx)[1])
                    EXCEPT !.out = pmp_get_region(PmpState, region_idx)[2]]
    /\ UNCHANGED <<regions, region_count, pmpcfg, pmpaddr>>

call_pmp_check_access(addr, size, is_write, is_execute) ==
    /\ pmp_ev' = [PmpCall("check", 0, "ERR_OK")
                    EXCEPT !.allowed = pmp_check_access(PmpState, addr, size,
                                                        is_write, is_execute)]
    /\ UNCHANGED <<regions, region_count, pmpcfg, pmpaddr>>

call_pmp_init_kernel ==
    PmpApply("init_kernel", 0, pmp_init_kernel(PmpState))

\* kernel_mempools: text (R+X), data, bss, heap and stack (R+W), all with
\* the KERNEL tag, between the bounds bnd = <<start, end>> the linker set
KernelPools(text, data, bss, heap, stack) ==
    LET RX == BitOr(PMPCFG_R, PMPCFG_X)
        RW == BitOr(PMPCFG_R, PMPCFG_W)
        pool(bnd, flags) == [start |-> bnd[1], end |-> bnd[2], flags |-> flags,
                             tag |-> PMP_PRIORITY_KERNEL]
    IN <<pool(text, RX), pool(data, RW), pool(bss, RW), pool(heap, RW),
         pool(stack, RW)>>

\* the non-empty sections a linker script can lay out in the address space
Sections ==
    {x \in (0..(AddrMod - 1)) \X (0..(AddrMod - 1)) : x[1] < x[2]}

KernelLayouts ==
    {KernelPools(text, data, bss, <<AddrMod - 2, AddrMod - 1>>,
                 <<0, AddrMod - 1>>) :
        text \in Sections, data \in Sections, bss \in Sections}

\* one layout, for the specifications that do not configure the kernel pools
LinkInit ==
    kernel_mempools = KernelPools(<<0, 1>>, <<1, 2>>, <<1, 2>>, <<2, 3>>,
                                  <<0, AddrMod - 1>>)

PmpInit ==
    /\ regions = PmpReset.regions
    /\ region_count = PmpReset.region_count
    /\ pmpcfg = PmpReset.pmpcfg
    /\ pmpaddr = PmpReset.pmpaddr
    /\ pmp_ev = PmpCall("reset", 0, "ERR_OK")

\* ---- message queue (kernel/mqueue.c) ------------------------------------
Msgs == 1..NMsgs

\* a step of the last message queue call
MqEv(t, what, val, msg) == [task |-> t, op |-> what, res |-> val, msg |-> msg]

MqInit ==
    /\ mq_q = <<>>
    /\ mq_live = TRUE
    /\ mq_pc = [u \in DOMAIN state |-> "top"]
    /\ mq_ev = MqEv(Idle, "create", "ERR_OK", 0)

\* t runs: between two critical sections of another task only when the
\* timer may preempt that task
MqRunning(t) ==
    preemptive \/ \A u \in Tasks \ {t} : mq_pc[u] = "top"

\* mo_mq_create once the previous queue is gone
mo_mq_create(t) ==
    /\ MqRunning(t)
    /\ ~mq_live
    /\ mq_pc[t] = "top"
    /\ mq_live' = TRUE
    /\ mq_q' = <<>>
    /\ mq_ev' = MqEv(t, "create", "ERR_OK", 0)
    /\ UNCHANGED mq_pc

\* mo_mq_enqueue: queue_enqueue fails on a full queue
mo_mq_enqueue(t, msg) ==
    /\ MqRunning(t)
    /\ mq_live
    /\ mq_pc[t] = "top"
    /\ IF Len(mq_q) >= MaxItems THEN
           /\ mq_ev' = MqEv(t, "enqueue", "ERR_FAIL", msg)
           /\ UNCHANGED mq_q
       ELSE
           /\ mq_q' = Append(mq_q, msg)
           /\ mq_ev' = MqEv(t, "enqueue", "ERR_OK", msg)
    /\ UNCHANGED <<mq_live, mq_pc>>

\* mo_mq_dequeue: the oldest message, NULL (0) when the queue is empty
mo_mq_dequeue(t) ==
    /\ MqRunning(t)
    /\ mq_live
    /\ mq_pc[t] = "top"
    /\ IF Len(mq_q) = 0 THEN
           /\ mq_ev' = MqEv(t, "dequeue", "NULL", 0)
           /\ UNCHANGED mq_q
       ELSE
           /\ mq_q' = Tail(mq_q)
           /\ mq_ev' = MqEv(t, "dequeue", "MSG", Head(mq_q))
    /\ UNCHANGED <<mq_live, mq_pc>>

mo_mq_peek(t) ==
    /\ MqRunning(t)
    /\ mq_live
    /\ mq_pc[t] = "top"
    /\ mq_ev' = IF Len(mq_q) = 0 THEN MqEv(t, "peek", "NULL", 0)
                ELSE MqEv(t, "peek", "MSG", Head(mq_q))
    /\ UNCHANGED <<mq_q, mq_live, mq_pc>>

\* mo_mq_destroy up to the release of queue_lock
mo_mq_destroy(t) ==
    /\ MqRunning(t)
    /\ mq_live
    /\ mq_pc[t] = "top"
    /\ IF Len(mq_q) # 0 THEN
           /\ mq_ev' = MqEv(t, "destroy", "ERR_MQ_NOTEMPTY", 0)
           /\ UNCHANGED mq_pc
       ELSE
           /\ mq_pc' = [mq_pc EXCEPT ![t] = "destroy_free"]
           /\ mq_ev' = MqEv(t, "destroy_check", "NONE", 0)
    /\ UNCHANGED <<mq_q, mq_live>>

\* mo_mq_destroy after the release of queue_lock: queue_destroy(mq->q),
\* free(mq), return ERR_OK
mq_destroy_free(t) ==
    /\ MqRunning(t)
    /\ mq_pc[t] = "destroy_free"
    /\ mq_live' = FALSE
    /\ mq_pc' = [mq_pc EXCEPT ![t] = "top"]
    /\ mq_ev' = MqEv(t, "destroy", "ERR_OK", 0)
    /\ UNCHANGED mq_q

\* ---- flexpages and memory spaces (kernel/memprot.c) ---------------------
FpIds == 1..NFpages

\* an fpage_t: its fields, whether malloc has handed it out ("none"), it is
\* allocated ("live") or it was freed ("freed"), and (history) whether it
\* was loaded into a hardware region and not evicted since
NoFpage ==
    [st |-> "none", base |-> 0, size |-> 0, rwx |-> 0, pmp_id |-> 0,
     flags |-> 0, priority |-> 0, used |-> 0, resident |-> FALSE]

FpInit ==
    /\ fpages = [f \in FpIds |-> NoFpage]
    /\ mspace = [st |-> "none", first |-> <<>>]
    /\ fp_ev = [op |-> "boot", fpage |-> 0, res |-> "ERR_OK"]

FpEv(what, f, val) == [op |-> what, fpage |-> f, res |-> val]

\* <<base, size>> and rwx passed to mo_fpage_create
FpExtents == {<<0, 1>>, <<1, AddrMod - 2>>}

FpPerms == {BitOr(PMPCFG_R, PMPCFG_W)}

mo_fpage_create(f, base, size, rwx, priority) ==
    /\ fpages[f].st = "none"
    /\ fpages' = [fpages EXCEPT ![f] =
                    [st |-> "live", base |-> base, size |-> size, rwx |-> rwx,
                     pmp_id |-> 0, flags |-> 0, priority |-> priority,
                     used |-> 0, resident |-> FALSE]]
    /\ fp_ev' = FpEv("fpage_create", f, "ERR_OK")
    /\ UNCHANGED <<mspace, pmpVars>>

\* free(fpage), whatever the state of the flexpage
mo_fpage_destroy(f) ==
    /\ fpages[f].st = "live"
    /\ ~InList(mspace.first, f)
    /\ fpages' = [fpages EXCEPT ![f].st = "freed"]
    /\ fp_ev' = FpEv("fpage_destroy", f, "ERR_OK")
    /\ UNCHANGED <<mspace, pmpVars>>

\* pmp_load_fpage: install the flexpage in hardware region region_idx with
\* pmp_set_region and record the region in pmp_id
mo_load_fpage(f, region_idx) ==
    /\ fpages[f].st = "live"
    /\ ~fpages[f].resident
    /\ \A g \in FpIds : fpages[g].resident => fpages[g].pmp_id # region_idx
    /\ LET r == pmp_set_region(PmpState,
                   [addr_start |-> fpages[f].base,
                    addr_end |-> fpages[f].base + fpages[f].size,
                    permissions |-> fpages[f].rwx,
                    priority |-> fpages[f].priority,
                    region_id |-> region_idx, locked |-> 0])
       IN /\ PmpApply("set", region_idx, r)
          /\ fpages' = IF r[1] = "ERR_OK"
                       THEN [fpages EXCEPT ![f].pmp_id = region_idx,
                                           ![f].resident = TRUE]
                       ELSE fpages
          /\ fp_ev' = FpEv("load_fpage", f, r[1])
    /\ UNCHANGED mspace

\* pmp_evict_fpage: disable the hardware region of the flexpage and clear
\* pmp_id
mo_evict_fpage(f) ==
    /\ fpages[f].st = "live"
    /\ fpages[f].resident
    /\ LET r == pmp_disable_region(PmpState, fpages[f].pmp_id)
       IN /\ PmpApply("disable", fpages[f].pmp_id, r)
          /\ fpages' = IF r[1] = "ERR_OK"
                       THEN [fpages EXCEPT ![f].pmp_id = 0,
                                           ![f].resident = FALSE]
                       ELSE fpages
          /\ fp_ev' = FpEv("evict_fpage", f, r[1])
    /\ UNCHANGED mspace

mo_memspace_create ==
    /\ mspace.st = "none"
    /\ mspace' = [st |-> "live", first |-> <<>>]
    /\ fp_ev' = FpEv("memspace_create", 0, "ERR_OK")
    /\ UNCHANGED <<fpages, pmpVars>>

\* the flexpage becomes the head of the list of the memory space
memspace_link(f) ==
    /\ mspace.st = "live"
    /\ fpages[f].st = "live"
    /\ ~InList(mspace.first, f)
    /\ mspace' = [mspace EXCEPT !.first = <<f>> \o mspace.first]
    /\ fp_ev' = FpEv("link", f, "ERR_OK")
    /\ UNCHANGED <<fpages, pmpVars>>

\* mo_fpage_destroy on every flexpage of the list, then free(mspace)
mo_memspace_destroy ==
    /\ mspace.st = "live"
    /\ fpages' = [f \in FpIds |->
                    IF InList(mspace.first, f)
                    THEN [fpages[f] EXCEPT !.st = "freed"] ELSE fpages[f]]
    /\ mspace' = [st |-> "freed", first |-> <<>>]
    /\ fp_ev' = FpEv("memspace_destroy", 0, "ERR_OK")
    /\ UNCHANGED pmpVars

\* ---- trap entry and return (_isr) ---------------------------------------
ISR_CONTEXT_SIZE == 144

\* the general registers in the order of the frame words 0..29
FrameRegs ==
    <<"ra", "gp", "tp", "t0", "t1", "t2", "s0", "s1",
      "a0", "a1", "a2", "a3", "a4", "a5", "a6", "a7",
      "s2", "s3", "s4", "s5", "s6", "s7", "s8", "s9", "s10", "s11",
      "t3", "t4", "t5", "t6">>

RegNames == {FrameRegs[i] : i \in 1..Len(FrameRegs)}

\* mstatus: MIE is bit 3, MPIE bit 7, MPP bits 12:11 (0 = U, 3 = M)
MSTATUS_MIE == 8

MSTATUS_MPIE == 128

MSTATUS_MPP_SHIFT == 11

MSTATUS_GET_MPP(m) == (m \div (2 ^ MSTATUS_MPP_SHIFT)) % 4

\* the mstatus word with the given MPP, MPIE and MIE fields
Mstatus(mpp, mpie, mie) ==
    mpp * (2 ^ MSTATUS_MPP_SHIFT) + mpie * MSTATUS_MPIE + mie * MSTATUS_MIE

MPIE(m) == (m \div MSTATUS_MPIE) % 2

MIE(m) == (m \div MSTATUS_MIE) % 2

\* mcause read as a signed 32-bit value: bit 31, the interrupt bit, makes
\* it negative
MCAUSE_INT == 0 - 2147483647 - 1

MCAUSE_IS_INTERRUPT(cause) == cause < 0

MCAUSE_MTI == 7

MCAUSE_ILLEGAL_INST == 2

MCAUSE_ECALL_UMODE == 8

MCAUSE_ECALL_MMODE == 11

\* the kernel stack top, the stack pointer of the kernel-mode task, the top
\* of the user task's stack and the stack pointer a hostile user task
\* installs with __switch_sp
_stack == 1024

KERNEL_TASK_SP == 2048

USER_STACK_TOP == 3072

MALICIOUS_SP == 4093

\* the stack pointers the user task installs: its own stack, the hostile
\* value and 0
UserSps == {USER_STACK_TOP, MALICIOUS_SP, 0}

\* the entry point of the user task
USER_ENTRY == 256

\* system call numbers
SYS_tid == 1

SYS_tyield == 2

\* byte address of word i of the frame at fp
Word(fp, i) == fp + 4 * i

\* the 36 words below a stack address
Window(top) == {Word(top - ISR_CONTEXT_SIZE, i) : i \in 0..35}

MemAddrs ==
    Window(_stack) \cup Window(KERNEL_TASK_SP) \cup Window(USER_STACK_TOP)
        \cup Window(MALICIOUS_SP)

\* the tasks of the hart: a kernel-mode task and one user-mode task
KernelTask == 0

UserTask == 1

TrapTasks == {KernelTask, UserTask}

\* the value task t keeps in the register of frame word i
RegVal(t, i) == 32 * (t + 1) + i

TaskRegs(t) ==
    [r \in RegNames |->
        RegVal(t, CHOOSE i \in 0..29 : FrameRegs[i + 1] = r)]

\* the machine the instructions of _isr work on: the hart, the memory and
\* (history) the addresses stored to
Machine == [h |-> hart, m |-> mem, st |-> {}]

\* sw reg, i*4(sp)
sw(s, reg, i) ==
    [s EXCEPT !.m = [a \in DOMAIN s.m |->
                        IF a = Word(s.h.sp, i) THEN s.h.x[reg] ELSE s.m[a]],
              !.st = s.st \cup {Word(s.h.sp, i)}]

\* lw reg, i*4(sp)
lw(s, reg, i) == [s EXCEPT !.h.x[reg] = s.m[Word(s.h.sp, i)]]

\* sw of the registers of the frame words i..last, in that order
RECURSIVE SaveRegs(_, _, _)
SaveRegs(s, i, last) ==
    IF i > last THEN s ELSE SaveRegs(sw(s, FrameRegs[i + 1], i), i + 1, last)

\* lw of the registers of the frame words i..last
RECURSIVE LoadRegs(_, _, _)
LoadRegs(s, i, last) ==
    IF i > last THEN s ELSE LoadRegs(lw(s, FrameRegs[i + 1], i), i + 1, last)

\* csrrw sp, mscratch, sp
csrrw_sp_mscratch(s) ==
    [s EXCEPT !.h.sp = s.h.mscratch, !.h.mscratch = s.h.sp]

\* csrr a0, mcause; csrr a1, mepc; csrr a2, mstatus; sw to words 30..32;
\* mv a2, sp
SaveCsrs(s) ==
    LET s1 == [s EXCEPT !.h.x["a0"] = s.h.mcause, !.h.x["a1"] = s.h.mepc,
                        !.h.x["a2"] = s.h.mstatus]
        s2 == sw(sw(sw(s1, "a0", 30), "a1", 31), "a2", 32)
    IN [s2 EXCEPT !.h.x["a2"] = s2.h.sp]

\* the M-mode entry path saving the stack pointer of the frame in word 33
Lmmode_entry_FrameSp(s) ==
    LET s1 == [s EXCEPT !.h.sp = s.h.sp - ISR_CONTEXT_SIZE]
        s2 == SaveRegs(s1, 0, 29)
        s3 == sw([s2 EXCEPT !.h.x["t0"] = s2.h.sp], "t0", 33)
    IN SaveCsrs(s3)

\* the M-mode entry path up to the call of do_trap
Lmmode_entry(s) ==
    LET s1 == [s EXCEPT !.h.sp = s.h.sp - ISR_CONTEXT_SIZE]
        s2 == SaveRegs(s1, 0, 29)
        s3 == sw([s2 EXCEPT !.h.x["t0"] = s2.h.sp + ISR_CONTEXT_SIZE], "t0", 33)
    IN SaveCsrs(s3)

\* the U-mode entry path writing the frame below the user stack pointer
Lumode_entry_UserStack(s) ==
    LET s0 == csrrw_sp_mscratch(s)
        s1 == [s0 EXCEPT !.h.sp = s0.h.sp - ISR_CONTEXT_SIZE]
        s2 == sw(s1, "t6", 29)
        s3 == sw([s2 EXCEPT !.h.x["t6"] = s2.h.sp + ISR_CONTEXT_SIZE], "t6", 33)
        s4 == SaveRegs(s3, 0, 28)
    IN SaveCsrs(s4)

\* the U-mode entry path up to the call of do_trap: sp holds the kernel
\* stack and mscratch the user stack pointer
Lumode_entry(s) ==
    LET s1 == [s EXCEPT !.h.sp = s.h.sp - ISR_CONTEXT_SIZE]
        s2 == sw(s1, "t6", 29)
        s3 == sw([s2 EXCEPT !.h.x["t6"] = s2.h.mscratch], "t6", 33)
        s4 == SaveRegs(s3, 0, 28)
    IN SaveCsrs(s4)

\* _isr from its first instruction to the call of do_trap
IsrEntry(s) ==
    LET s1 == csrrw_sp_mscratch(s)
    IN IF s1.h.sp # 0 THEN Lumode_entry(s1)
       ELSE Lmmode_entry(csrrw_sp_mscratch(s1))

\* the path _isr takes for machine s
EntryPath(s) == IF s.h.mscratch # 0 THEN "u" ELSE "m"

\* mret
mret(h) ==
    [h EXCEPT !.mode = IF MSTATUS_GET_MPP(h.mstatus) = 0 THEN "U" ELSE "M",
              !.pc = h.mepc,
              !.mstatus = Mstatus(0, 1, MPIE(h.mstatus))]

\* the restore reloading mepc through t1 after the general registers
RestoreFrame_EpcLast(s) ==
    LET s1 == LoadRegs(s, 0, 29)
        s2 == lw(s1, "t1", 31)
        s3 == [s2 EXCEPT !.h.mepc = s2.h.x["t1"]]
        s4 == [s3 EXCEPT !.h.sp = s3.m[Word(s3.h.sp, 33)]]
    IN [s4 EXCEPT !.h = mret(s4.h)]

\* reload mepc, the general registers and sp from the frame, then mret
RestoreFrame(s) ==
    LET s1 == lw(s, "t1", 31)
        s2 == [s1 EXCEPT !.h.mepc = s1.h.x["t1"]]
        s3 == LoadRegs(s2, 0, 29)
        s4 == [s3 EXCEPT !.h.sp = s3.m[Word(s3.h.sp, 33)]]
    IN [s4 EXCEPT !.h = mret(s4.h)]

\* the M-mode restore path leaving mscratch as it is
Lrestore_mmode_KeepScratch(s) == RestoreFrame(s)

Lrestore_mmode(s) == RestoreFrame([s EXCEPT !.h.mscratch = 0])

Lrestore_umode(s) == RestoreFrame([s EXCEPT !.h.mscratch = _stack])

\* _isr after do_trap has returned to the entry path `path`
IsrReturn(s, path) ==
    LET s1 == [s EXCEPT !.h.sp = s.h.x["a0"]]
        s2 == lw(s1, "t0", 32)
        s3 == [s2 EXCEPT !.h.mstatus = s2.h.x["t0"],
                         !.h.x["t1"] = (s2.h.x["t0"] \div (2 ^ 11)) % 4]
    IN IF path = "m"
       THEN (IF s3.h.x["t1"] = 0 THEN Lrestore_umode(s3) ELSE Lrestore_mmode(s3))
       ELSE (IF s3.h.x["t1"] # 0 THEN Lrestore_mmode(s3) ELSE Lrestore_umode(s3))

\* the hart takes a trap: mepc, mcause and mstatus.MPP/MPIE record the
\* interrupted context, interrupts are disabled, the mode is M
TakeTrap(h, cause) ==
    [h EXCEPT !.mcause = cause, !.mepc = h.pc,
              !.mstatus = Mstatus(IF h.mode = "U" THEN 0 ELSE 3,
                                  MIE(h.mstatus), 0),
              !.mode = "M", !.pc = 0]

TrapHist(what, c, st, fp) == [ev |-> what, ctx |-> c, stores |-> st, frame |-> fp]

\* the kernel-mode task runs; the user task has been spawned and waits in
\* the frame built for its first dispatch
TrapInit ==
    /\ hart = [mode |-> "M", pc |-> 128, sp |-> KERNEL_TASK_SP, mscratch |-> 0,
               mcause |-> 0, mepc |-> 0, mstatus |-> Mstatus(3, 1, 1),
               x |-> TaskRegs(KernelTask)]
    /\ mem = [a \in MemAddrs |->
                LET fp == USER_STACK_TOP - ISR_CONTEXT_SIZE IN
                IF \E i \in 0..29 : a = Word(fp, i)
                THEN RegVal(UserTask, CHOOSE i \in 0..29 : a = Word(fp, i))
                ELSE IF a = Word(fp, 31) THEN USER_ENTRY
                ELSE IF a = Word(fp, 32) THEN Mstatus(0, 1, 0)
                ELSE IF a = Word(fp, 33) THEN USER_STACK_TOP
                ELSE 0]
    /\ tcb = [cur |-> KernelTask,
              frame |-> [t \in TrapTasks |->
                           IF t = UserTask
                           THEN USER_STACK_TOP - ISR_CONTEXT_SIZE ELSE 0]]
    /\ trap_pc = "run"
    /\ trap_hist = TrapHist("boot", hart, {}, 0)

\* the hart traps with cause `cause` out of the context h
Trap(h, cause) ==
    /\ hart' = TakeTrap(h, cause)
    /\ trap_pc' = "isr"
    /\ trap_hist' = TrapHist("trap", [h EXCEPT !.mcause = cause], {}, 0)
    /\ UNCHANGED <<mem, tcb>>

\* __switch_sp(new_sp) in the user task
user_switch_sp(new_sp) ==
    /\ trap_pc = "run"
    /\ hart.mode = "U"
    /\ hart.sp # new_sp
    /\ hart' = [hart EXCEPT !.x["t0"] = hart.sp, !.sp = new_sp,
                            !.x["a0"] = hart.sp]
    /\ trap_hist' = [trap_hist EXCEPT !.ev = "switch_sp"]
    /\ UNCHANGED <<mem, tcb, trap_pc>>

\* syscall(num, 0, 0, 0) in the user task up to the ecall
syscall(num) ==
    /\ trap_pc = "run"
    /\ hart.mode = "U"
    /\ hart.pc < USER_ENTRY + 4 * MaxEcalls
    /\ Trap([hart EXCEPT !.x["a0"] = 0, !.x["a1"] = 0, !.x["a2"] = 0,
                         !.x["a7"] = num], MCAUSE_ECALL_UMODE)

\* csrr %0, mstatus in the user task
user_csrr_mstatus ==
    /\ trap_pc = "run"
    /\ hart.mode = "U"
    /\ Trap(hart, MCAUSE_ILLEGAL_INST)

\* an exception raised by the kernel-mode task
kernel_exception(cause) ==
    /\ trap_pc = "run"
    /\ hart.mode = "M"
    /\ Trap(hart, cause)

\* the machine timer interrupt, taken when interrupts are enabled
timer_interrupt ==
    /\ trap_pc = "run"
    /\ hart.mode = "U" \/ MIE(hart.mstatus) = 1
    /\ Trap(hart, MCAUSE_INT + MCAUSE_MTI)

\* an exception raised by the code of do_trap while it handles a trap taken
\* from task code (pc 0 is the handler's own code)
handler_exception(cause) ==
    /\ trap_pc \in {"do_trap_m", "do_trap_u"}
    /\ trap_hist.ctx.pc # 0
    /\ Trap(hart, cause)

\* _isr up to the call of do_trap
isr_entry ==
    /\ trap_pc = "isr"
    /\ LET s == IsrEntry(Machine) IN
        /\ hart' = s.h
        /\ mem' = s.m
        /\ trap_pc' = IF EntryPath(Machine) = "u" THEN "do_trap_u" ELSE "do_trap_m"
        /\ trap_hist' = [trap_hist EXCEPT !.ev = "entry", !.stores = s.st]
    /\ UNCHANGED tcb

\* do_trap returns the frame of task nxt after leaving memory m
ReturnFrame(nxt, isr_sp, m) ==
    LET fp == IF nxt = tcb.cur THEN isr_sp ELSE tcb.frame[nxt] IN
    /\ tcb' = [cur |-> nxt, frame |-> [tcb.frame EXCEPT ![tcb.cur] = isr_sp]]
    /\ hart' = [hart EXCEPT !.x["a0"] = fp]
    /\ mem' = m
    /\ trap_pc' = IF trap_pc = "do_trap_u" THEN "restore_u" ELSE "restore_m"
    /\ trap_hist' = [trap_hist EXCEPT !.ev = "do_trap", !.frame = fp]

\* do_trap(cause, epc, isr_sp) handling an exception as an ecall
do_trap_AllEcalls ==
    /\ trap_pc \in {"do_trap_m", "do_trap_u"}
    /\ LET cause == hart.x["a0"]
           epc == hart.x["a1"]
           isr_sp == hart.x["a2"]
       IN IF MCAUSE_IS_INTERRUPT(cause) THEN \E nxt \in TrapTasks : ReturnFrame(nxt, isr_sp, mem)
          ELSE LET m1 == [mem EXCEPT ![Word(isr_sp, 31)] = epc + 4,
                                     ![Word(isr_sp, 8)] = tcb.cur]
               IN ReturnFrame(tcb.cur, isr_sp, m1)

\* do_trap(cause, epc, isr_sp): the timer interrupt runs the scheduler, an
\* ecall from U-mode runs the system call of a7, writes the result to a0 of
\* the frame and advances mepc; any other exception is a panic
do_trap ==
    /\ trap_pc \in {"do_trap_m", "do_trap_u"}
    /\ LET cause == hart.x["a0"]
           epc == hart.x["a1"]
           isr_sp == hart.x["a2"]
       IN IF MCAUSE_IS_INTERRUPT(cause) THEN \E nxt \in TrapTasks : ReturnFrame(nxt, isr_sp, mem)
          ELSE IF cause = MCAUSE_ECALL_UMODE THEN
              LET num == mem[Word(isr_sp, 15)]
                  m1 == [mem EXCEPT ![Word(isr_sp, 31)] = epc + 4]
              IN IF num = SYS_tid
                 THEN ReturnFrame(tcb.cur, isr_sp,
                                  [m1 EXCEPT ![Word(isr_sp, 8)] = tcb.cur])
                 ELSE \E nxt \in TrapTasks :
                        ReturnFrame(nxt, isr_sp,
                                    [m1 EXCEPT ![Word(isr_sp, 8)] = 0])
          ELSE /\ trap_pc' = "panic"
               /\ trap_hist' = [trap_hist EXCEPT !.ev = "panic"]
               /\ UNCHANGED <<hart, mem, tcb>>

\* _isr from the return of do_trap to mret
isr_return ==
    /\ trap_pc \in {"restore_m", "restore_u"}
    /\ LET s == IsrReturn(Machine, IF trap_pc = "restore_m" THEN "m" ELSE "u") IN
        /\ hart' = s.h
        /\ mem' = s.m
    /\ trap_pc' = "run"
    /\ trap_hist' = [trap_hist EXCEPT !.ev = "return"]
    /\ UNCHANGED tcb

\* ---- the reset vector (_entry) --------------------------------------------
\* mie.MEIE
MIE_MEIE == 2048

\* the harts, numbered by mhartid; all of them leave reset at _entry
Harts == 0..(NHarts - 1)

\* a word of .bss holds what the memory held at power-on, zero, or a value
\* the kernel has stored since main was entered
POWER_ON == 1

KERNEL_DATA == 2

EntryEv(what, h) == [op |-> what, hart |-> h, main_entered |-> eh[0].pc = "main"]

\* every hart is at the first instruction; mtvec and mie have their reset
\* values
EntryInit ==
    /\ eh = [h \in Harts |->
                [pc |-> "_entry", a0 |-> 0, mtvec |-> "reset", mie |-> 0]]
    /\ bss_mem = [i \in 0..(BssWords - 1) |-> POWER_ON]
    /\ entry_ev = [op |-> "reset", hart |-> 0, main_entered |-> FALSE]

\* la gp / sp / tp; la a0, _sbss; la a1, _ebss; bgeu a0, a1, .Lbss_done
entry_setup(h) ==
    /\ eh[h].pc = "_entry"
    /\ eh' = [eh EXCEPT ![h].a0 = 0,
                        ![h].pc = IF 0 >= BssWords THEN "bss_done"
                                  ELSE "bss_clear_loop"]
    /\ entry_ev' = EntryEv("setup", h)
    /\ UNCHANGED bss_mem

\* sw zero, 0(a0); addi a0, a0, 4; bltu a0, a1, .Lbss_clear_loop
bss_clear_loop(h) ==
    /\ eh[h].pc = "bss_clear_loop"
    /\ bss_mem' = [bss_mem EXCEPT ![eh[h].a0] = 0]
    /\ eh' = [eh EXCEPT ![h].a0 = eh[h].a0 + 1,
                        ![h].pc = IF eh[h].a0 + 1 < BssWords
                                  THEN "bss_clear_loop" ELSE "bss_done"]
    /\ entry_ev' = EntryEv("sw", h)

\* csrw mstatus; csrw mie, zero; csrw mip / mideleg / medeleg, zero
entry_csrs(h) ==
    /\ eh[h].pc = "bss_done"
    /\ eh' = [eh EXCEPT ![h].mie = 0, ![h].pc = "hart_check"]
    /\ entry_ev' = EntryEv("csrs", h)
    /\ UNCHANGED bss_mem

\* csrr t0, mhartid; bnez t0, .Lpark_hart
hart_check(h) ==
    /\ eh[h].pc = "hart_check"
    /\ eh' = [eh EXCEPT ![h].pc = IF h # 0 THEN "park_hart" ELSE "boot_hart"]
    /\ entry_ev' = EntryEv("hart_check", h)
    /\ UNCHANGED bss_mem

\* la t0, _isr; csrw mtvec, t0; li t0, MIE_MEIE; csrw mie, t0; call main
entry_call_main(h) ==
    /\ eh[h].pc = "boot_hart"
    /\ eh' = [eh EXCEPT ![h].mtvec = "_isr", ![h].mie = MIE_MEIE,
                        ![h].pc = "main"]
    /\ entry_ev' = EntryEv("call_main", h)
    /\ UNCHANGED bss_mem

\* the kernel, entered through main, stores to a variable of .bss
main_store(h, i) ==
    /\ eh[h].pc = "main"
    /\ bss_mem[i] # KERNEL_DATA
    /\ bss_mem' = [bss_mem EXCEPT ![i] = KERNEL_DATA]
    /\ entry_ev' = EntryEv("main_store", h)
    /\ UNCHANGED eh

\* .Lpark_hart: wfi; j .Lpark_hart
park_hart(h) ==
    /\ eh[h].pc = "park_hart"
    /\ entry_ev' = EntryEv("wfi", h)
    /\ UNCHANGED <<eh, bss_mem>>

\* ---- the spinlock of the mutex subsystem --------------------------------
\* spin.lock is the word of mutex_lock, spin.flags the static mutex_flags,
\* spin.mie[t] the interrupt enable (mstatus.MIE) of task t's context, which
\* a context switch saves and restores with the task, and spin.at_call[t]
\* (history) the interrupt enable t had when it last called mo_mutex_lock.
\* The hart runs one task at a time; a task is not made to spin on the lock
\* word.
SpinInit ==
    spin = [lock |-> 0, flags |-> FALSE,
            mie |-> [u \in DOMAIN state |-> TRUE],
            at_call |-> [u \in DOMAIN state |-> TRUE]]

\* spin_lock_irqsave(&mutex_lock, &mutex_flags) by t, from spin state s
spin_lock_irqsave(s, t) ==
    [s EXCEPT !.lock = 1, !.flags = s.mie[t], !.mie[t] = FALSE]

\* spin_unlock_irqrestore(&mutex_lock, mutex_flags) by t
spin_unlock_irqrestore(s, t) ==
    [s EXCEPT !.lock = 0, !.mie[t] = s.flags]

\* a call of t whose critical section is closed before the step ends
SpinBracket(t) ==
    spin' = spin_unlock_irqrestore(spin_lock_irqsave(spin, t), t)

\* mo_mutex_lock by t: the busy and the fast path unlock before they return,
\* the slow path enters mutex_block_atomic and switches context with the
\* lock taken
SpinLockCall(t) ==
    LET s0 == [spin EXCEPT !.at_call[t] = spin.mie[t]]
        s1 == spin_lock_irqsave(s0, t)
    IN spin' = IF ev'.kind = "ret" THEN spin_unlock_irqrestore(s1, t) ELSE s1

\* interrupts are taken only while the running task has them enabled
InterruptsEnabled == spin.mie[task_current]


\* ---- specifications ------------------------------------------------------
Init == Boot(NTasks) /\ PmpInit /\ MqInit /\ SpinInit /\ LinkInit /\ FpInit
        /\ TrapInit /\ EntryInit

\* the magic tags are written by the destroy calls only; the PMP and the
\* message queue are not touched by the mutex and the scheduler
KeepOthers ==
    UNCHANGED <<pmpVars, mqVars, spinVars, linkVars, fpVars, trapVars,
                entryVars>>

KeepMagic == UNCHANGED <<m_magic, c_magic>> /\ KeepOthers

Next ==
    \/ (\E t \in Tasks : mo_mutex_destroy(t)) /\ KeepOthers
    \/ (\E t \in Tasks : mo_cond_destroy(t)) /\ KeepOthers
    \/ (\E t \in Tasks : mo_mutex_lock(t)) /\ KeepMagic
    \/ (\E t \in Tasks : mutex_lock_return(t)) /\ KeepMagic
    \/ (\E t \in Tasks : mo_mutex_trylock(t)) /\ KeepMagic
    \/ (\E t \in Tasks : mo_mutex_unlock(t)) /\ KeepMagic
    \/ (\E t \in Tasks, ticks \in 0..MaxTicks : mo_mutex_timedlock(t, ticks)) /\ KeepMagic
    \/ (\E t \in Tasks : timedlock_yield(t)) /\ KeepMagic
    \/ (\E t \in Tasks : timedlock_wake(t)) /\ KeepMagic
    \/ (\E t \in Tasks : mo_cond_wait(t)) /\ KeepMagic
    \/ (\E t \in Tasks : cond_wait_unlock(t)) /\ KeepMagic
    \/ (\E t \in Tasks : cond_wait_yield(t)) /\ KeepMagic
    \/ (\E t \in Tasks : cond_wait_relock(t)) /\ KeepMagic
    \/ (\E t \in Tasks, ticks \in 0..MaxTicks : mo_cond_timedwait(t, ticks)) /\ KeepMagic
    \/ (\E t \in Tasks : cond_timedwait_unlock(t)) /\ KeepMagic
    \/ (\E t \in Tasks : cond_timedwait_yield(t)) /\ KeepMagic
    \/ (\E t \in Tasks : cond_timedwait_wake(t)) /\ KeepMagic
    \/ (\E t \in Tasks : cond_timedwait_relock(t)) /\ KeepMagic
    \/ (\E t \in Tasks : mo_cond_signal(t)) /\ KeepMagic
    \/ (\E t \in Tasks : mo_cond_broadcast(t)) /\ KeepMagic
    \/ (\E t \in Tasks : mo_task_yield(t)) /\ KeepMagic
    \/ idle_task /\ KeepMagic
    \/ timer_tick /\ KeepMagic

Spec == Init /\ [][Next]_vars

\* the mutex fairness test: NFairTasks tasks contending for m with the
\* mutex calls only
InitFair == Boot(NFairTasks) /\ PmpInit /\ MqInit /\ SpinInit /\ LinkInit /\ FpInit
        /\ TrapInit /\ EntryInit

NextFair ==
    \/ (\E t \in Tasks : mo_mutex_lock(t)) /\ KeepMagic
    \/ (\E t \in Tasks : mutex_lock_return(t)) /\ KeepMagic
    \/ (\E t \in Tasks : mo_mutex_trylock(t)) /\ KeepMagic
    \/ (\E t \in Tasks : mo_mutex_unlock(t)) /\ KeepMagic
    \/ (\E t \in Tasks, ticks \in 0..MaxTicks : mo_mutex_timedlock(t, ticks)) /\ KeepMagic
    \/ (\E t \in Tasks : timedlock_yield(t)) /\ KeepMagic
    \/ (\E t \in Tasks : timedlock_wake(t)) /\ KeepMagic
    \/ (\E t \in Tasks : mo_task_yield(t)) /\ KeepMagic
    \/ idle_task /\ KeepMagic
    \/ timer_tick /\ KeepMagic

SpecFair == InitFair /\ [][NextFair]_vars

\* the mutex calls of task t and its yield
TaskStep(t) ==
    \/ mo_mutex_lock(t) /\ KeepMagic
    \/ mutex_lock_return(t) /\ KeepMagic
    \/ mo_mutex_trylock(t) /\ KeepMagic
    \/ mo_mutex_unlock(t) /\ KeepMagic
    \/ (\E ticks \in 0..MaxTicks : mo_mutex_timedlock(t, ticks)) /\ KeepMagic
    \/ timedlock_yield(t) /\ KeepMagic
    \/ timedlock_wake(t) /\ KeepMagic
    \/ mo_task_yield(t) /\ KeepMagic

\* the mutex calls under a fair scheduler: the timer keeps ticking, every
\* task that can run again and again does run, and a task that owns the
\* mutex does not keep it forever
SpecStarve ==
    /\ Init
    /\ [][NextFair]_vars
    /\ WF_vars(timer_tick /\ KeepMagic)
    /\ WF_vars(idle_task /\ KeepMagic)
    /\ \A t \in 1..NTasks : SF_vars(TaskStep(t))
    /\ \A t \in 1..NTasks :
        SF_vars(owner_tid = t /\ mo_mutex_unlock(t) /\ KeepMagic)

\* the mutex calls of NTasks tasks with the spinlock and the interrupt
\* enables tracked
KeepSpinOthers ==
    UNCHANGED <<m_magic, c_magic, pmpVars, mqVars, linkVars, fpVars, trapVars,
                entryVars>>

NextSpin ==
    \/ (\E t \in Tasks : mo_mutex_lock(t) /\ SpinLockCall(t)) /\ KeepSpinOthers
    \/ (\E t \in Tasks : mutex_lock_return(t)) /\ UNCHANGED spin /\ KeepSpinOthers
    \/ (\E t \in Tasks : mo_mutex_trylock(t) /\ SpinBracket(t)) /\ KeepSpinOthers
    \/ (\E t \in Tasks : mo_mutex_unlock(t) /\ SpinBracket(t)) /\ KeepSpinOthers
    \/ (\E t \in Tasks, ticks \in 0..MaxTicks :
            mo_mutex_timedlock(t, ticks) /\ SpinBracket(t)) /\ KeepSpinOthers
    \/ (\E t \in Tasks : timedlock_yield(t)) /\ UNCHANGED spin /\ KeepSpinOthers
    \/ (\E t \in Tasks : timedlock_wake(t) /\ SpinBracket(t)) /\ KeepSpinOthers
    \/ (\E t \in Tasks : mo_task_yield(t)) /\ UNCHANGED spin /\ KeepSpinOthers
    \/ idle_task /\ UNCHANGED spin /\ KeepSpinOthers
    \/ timer_tick /\ InterruptsEnabled /\ UNCHANGED spin /\ KeepSpinOthers

SpecSpin == Init /\ [][NextSpin]_vars

\* the PMP engine called from kernel context
KeepPmpOthers ==
    UNCHANGED <<syncVars, mqVars, spinVars, linkVars, fpVars, trapVars,
                entryVars>>

NextPmp ==
    \/ call_pmp_init /\ KeepPmpOthers
    \/ (\E pools \in PoolLists : call_pmp_init_pools(pools)) /\ KeepPmpOthers
    \/ (\E region \in RegionInputs : call_pmp_set_region(region)) /\ KeepPmpOthers
    \/ (\E i \in RegionIdInputs : call_pmp_disable_region(i)) /\ KeepPmpOthers
    \/ (\E i \in RegionIdInputs : call_pmp_lock_region(i)) /\ KeepPmpOthers
    \/ (\E i \in RegionIdInputs : call_pmp_get_region(i)) /\ KeepPmpOthers
    \/ (\E addr \in 0..(AddrMod - 1), size \in 1..(AddrMod - 1),
           is_write \in BOOLEAN, is_execute \in BOOLEAN :
             call_pmp_check_access(addr, size, is_write, is_execute)) /\ KeepPmpOthers

SpecPmp == Init /\ [][NextPmp]_vars

\* the boot of the kernel on any layout, followed by tasks that yield and
\* are preempted: pmp_init_kernel runs once, before the first task switch,
\* and neither the scheduler nor the trap return path writes a PMP CSR
InitBoot ==
    /\ Boot(NTasks) /\ PmpInit /\ MqInit /\ SpinInit /\ FpInit /\ TrapInit
    /\ EntryInit
    /\ kernel_mempools \in KernelLayouts

BootDone == pmp_ev.op = "init_kernel"

NextBoot ==
    \/ ~BootDone /\ call_pmp_init_kernel /\ KeepPmpOthers
    \/ BootDone /\ (\E t \in Tasks : mo_task_yield(t)) /\ KeepMagic
    \/ BootDone /\ idle_task /\ KeepMagic
    \/ BootDone /\ timer_tick /\ KeepMagic

SpecBoot == InitBoot /\ [][NextBoot]_vars

\* the flexpage layer called from kernel context, on top of the PMP engine
KeepFpOthers ==
    UNCHANGED <<syncVars, mqVars, spinVars, linkVars, trapVars, entryVars>>

NextFp ==
    \/ (\E f \in FpIds, x \in FpExtents, rwx \in FpPerms :
            mo_fpage_create(f, x[1], x[2], rwx, PMP_PRIORITY_TEMPORARY))
         /\ KeepFpOthers
    \/ (\E f \in FpIds : mo_fpage_destroy(f)) /\ KeepFpOthers
    \/ (\E f \in FpIds, i \in 0..MaxRegion : mo_load_fpage(f, i)) /\ KeepFpOthers
    \/ (\E f \in FpIds : mo_evict_fpage(f)) /\ KeepFpOthers
    \/ mo_memspace_create /\ KeepFpOthers
    \/ (\E f \in FpIds : memspace_link(f)) /\ KeepFpOthers
    \/ mo_memspace_destroy /\ KeepFpOthers

SpecFp == Init /\ [][NextFp]_vars

\* one hart running a kernel-mode task and a user-mode task through _isr
KeepTrapOthers ==
    UNCHANGED <<syncVars, pmpVars, mqVars, spinVars, linkVars, fpVars,
                entryVars>>

NextTrap ==
    \/ (\E new_sp \in UserSps : user_switch_sp(new_sp)) /\ KeepTrapOthers
    \/ (\E num \in {SYS_tid, SYS_tyield} : syscall(num)) /\ KeepTrapOthers
    \/ user_csrr_mstatus /\ KeepTrapOthers
    \/ (\E cause \in {MCAUSE_ILLEGAL_INST, MCAUSE_ECALL_MMODE} : kernel_exception(cause))
         /\ KeepTrapOthers
    \/ timer_interrupt /\ KeepTrapOthers
    \/ isr_entry /\ KeepTrapOthers
    \/ do_trap /\ KeepTrapOthers
    \/ isr_return /\ KeepTrapOthers

SpecTrap == Init /\ [][NextTrap]_vars

\* the same hart when the trap handler itself can raise an exception
NextNested ==
    \/ (\E new_sp \in UserSps : user_switch_sp(new_sp)) /\ KeepTrapOthers
    \/ (\E num \in {SYS_tid, SYS_tyield} : syscall(num)) /\ KeepTrapOthers
    \/ user_csrr_mstatus /\ KeepTrapOthers
    \/ (\E cause \in {MCAUSE_ILLEGAL_INST, MCAUSE_ECALL_MMODE} : kernel_exception(cause))
         /\ KeepTrapOthers
    \/ timer_interrupt /\ KeepTrapOthers
    \/ handler_exception(MCAUSE_ILLEGAL_INST) /\ KeepTrapOthers
    \/ isr_entry /\ KeepTrapOthers
    \/ do_trap /\ KeepTrapOthers
    \/ isr_return /\ KeepTrapOthers

SpecNested == Init /\ [][NextNested]_vars

\* tasks sharing one message queue
KeepMqOthers ==
    UNCHANGED <<syncVars, pmpVars, spinVars, linkVars, fpVars, trapVars,
                entryVars>>

NextMq ==
    \/ (\E t \in Tasks : mo_mq_create(t)) /\ KeepMqOthers
    \/ (\E t \in Tasks, msg \in Msgs : mo_mq_enqueue(t, msg)) /\ KeepMqOthers
    \/ (\E t \in Tasks : mo_mq_dequeue(t)) /\ KeepMqOthers
    \/ (\E t \in Tasks : mo_mq_peek(t)) /\ KeepMqOthers
    \/ (\E t \in Tasks : mo_mq_destroy(t)) /\ KeepMqOthers
    \/ (\E t \in Tasks : mq_destroy_free(t)) /\ KeepMqOthers

SpecMq == Init /\ [][NextMq]_vars

\* the harts of the machine running _entry side by side
KeepEntryOthers ==
    UNCHANGED <<syncVars, pmpVars, mqVars, spinVars, linkVars, fpVars,
                trapVars>>

NextEntry ==
    \/ (\E h \in Harts : entry_setup(h)) /\ KeepEntryOthers
    \/ (\E h \in Harts : bss_clear_loop(h)) /\ KeepEntryOthers
    \/ (\E h \in Harts : entry_csrs(h)) /\ KeepEntryOthers
    \/ (\E h \in Harts : hart_check(h)) /\ KeepEntryOthers
    \/ (\E h \in Harts : entry_call_main(h)) /\ KeepEntryOthers
    \/ (\E h \in Harts, i \in 0..(BssWords - 1) : main_store(h, i))
         /\ KeepEntryOthers
    \/ (\E h \in Harts : park_hart(h)) /\ KeepEntryOthers

SpecEntry == Init /\ [][NextEntry]_vars

\* ---- claims -------------------------------------------------------------
Returned(api) == ev.kind = "ret" /\ ev.op = api

\* a return of a cond wait that came after the release of m succeeded
AfterRelease == ev.path \in {"fast", "slow", "busy"}

\* C1: mutual exclusion: every task to which an acquire call returned ERR_OK
\* and that has not unlocked since is the task named by owner_tid.
C1_MutualExclusion ==
    \A t \in Tasks : holds[t] => owner_tid = t

\* C4: every task on the waiter list of the mutex or of the condition
\* variable has state BLOCKED.
C4_WaitersBlocked ==
    \A t \in Tasks :
        (InList(m_waiters, t) \/ InList(c_waiters, t)) => state[t] = "BLOCKED"

\* C5: the task named by a non-zero owner_tid is READY or RUNNING, never
\* BLOCKED.
C5_OwnerRunnable ==
    owner_tid # 0 => state[owner_tid] \in {"READY", "RUNNING"}

\* C6: the owner of the mutex exists and is not on the mutex's own waiter
\* list.
C6_OwnerNotWaiting ==
    owner_tid # 0 => owner_tid \in Tasks /\ ~InList(m_waiters, owner_tid)

\* C8: every return from mo_cond_wait or mo_cond_timedwait that follows a
\* successful release of m happens with the caller owning m.
C8_WaitReturnsOwning ==
    (Returned("wait") \/ Returned("timedwait")) /\ AfterRelease
        => owner_tid = ev.task

\* C9: a mo_cond_timedwait with n > 0 that released m and was never
\* signalled returns ERR_TIMEOUT after at least n ticks, owning m and off
\* c's waiter list.
C9_TimedWaitExpires ==
    Returned("timedwait") /\ AfterRelease /\ ~ev.sig
        => /\ ev.res = "ERR_TIMEOUT"
           /\ ev.left = 0
           /\ owner_tid = ev.task
           /\ ~InList(c_waiters, ev.task)

\* C10: mo_mutex_timedlock with n > 0 whose delay expired while another task
\* kept owning m returns ERR_TIMEOUT with the caller off m's waiter list and
\* not owning m.
C10_TimedLockExpires ==
    Returned("timedlock") /\ ev.path = "slow" /\ ev.left = 0
                          /\ owner_tid \notin {0, ev.task}
        => /\ ev.res = "ERR_TIMEOUT"
           /\ ~InList(m_waiters, ev.task)

\* a step in which task t executes mo_mutex_unlock (directly or as the
\* release inside a cond wait)
UnlockStep(t) == ev'.task = t /\ ev'.op \in {"unlock", "cond_release"}

\* C2: when the owner calls mo_mutex_unlock while the waiter list is
\* non-empty, the same step makes the head waiter the owner (owner_tid is
\* never 0 in between), clears its delay and makes it READY.
C2_DirectTransfer ==
    [][\A t \in Tasks :
        UnlockStep(t) /\ owner_tid = t /\ ~list_is_empty(m_waiters)
            => /\ owner_tid' = Head(m_waiters)
               /\ state'[Head(m_waiters)] = "READY"
               /\ delay'[Head(m_waiters)] = 0]_vars

InCondWait(t) == pc[t] \in {"cw_unlock", "cw_yield", "cw_lock"}

\* C7: no lost wakeup in mo_cond_wait: a signal or broadcast issued while a
\* caller of mo_cond_wait heads c's waiter list (at any point after its
\* enqueueing, before or after its release of m and its yield) finds it
\* there and makes it READY, so that the caller goes on to return.
C7_SignalReadies ==
    [][\A t \in Tasks :
        (ev'.op \in {"signal", "broadcast"} /\ ~list_is_empty(c_waiters)
            /\ InCondWait(Head(c_waiters)))
          => state'[Head(c_waiters)] = "READY" /\ ~panicked']_vars

\* a step in which task t, not inside another call, executes the first
\* critical section of one of the calls named by ops
Invokes(t, ops) == pc[t] = "top" /\ ev'.task = t /\ ev'.op \in ops

\* C11: when the owner of m calls mo_mutex_lock, mo_mutex_trylock or
\* mo_mutex_timedlock, the call returns ERR_TASK_BUSY without blocking the
\* caller, without adding it to the waiter list and without changing
\* owner_tid.
C11_NoSelfDeadlock ==
    [][\A t \in Tasks :
        (owner_tid = t /\ Invokes(t, {"lock", "trylock", "timedlock", "block",
                                      "timedlock_block"}))
          => /\ ev'.kind = "ret"
             /\ ev'.res = "ERR_TASK_BUSY"
             /\ state' = state
             /\ pc' = pc
             /\ m_waiters' = m_waiters
             /\ owner_tid' = owner_tid]_vars

\* C11 witness: the owner has just been refused its own mutex.
C11_Witness ==
    /\ ev.kind = "ret"
    /\ ev.op \in {"lock", "timedlock"}
    /\ ev.res = "ERR_TASK_BUSY"
    /\ owner_tid = ev.task
    /\ state[ev.task] = "RUNNING"

\* C12: mo_mutex_unlock by a task that is not the owner returns
\* ERR_NOT_OWNER, mo_mutex_destroy of a mutex that is owned or has waiters
\* returns ERR_TASK_BUSY, and either leaves owner_tid, the waiter list, the
\* magic tag and every task's state as they were.
C12_RejectedCallChangesNothing ==
    [][\A t \in Tasks :
        /\ (mutex_is_valid /\ owner_tid # t /\ Invokes(t, {"unlock"}))
              => ev'.res = "ERR_NOT_OWNER"
        /\ (mutex_is_valid /\ (owner_tid # 0 \/ ~list_is_empty(m_waiters))
                           /\ Invokes(t, {"mutex_destroy"}))
              => ev'.res = "ERR_TASK_BUSY"
        /\ (Invokes(t, {"unlock", "mutex_destroy"})
                /\ ev'.res \in {"ERR_NOT_OWNER", "ERR_TASK_BUSY"})
              => /\ owner_tid' = owner_tid
                 /\ m_waiters' = m_waiters
                 /\ m_magic' = m_magic
                 /\ state' = state]_vars

\* C12 witness: a task has just been refused the destruction of a mutex
\* that another task owns.
C12_Witness ==
    /\ Returned("mutex_destroy")
    /\ ev.res = "ERR_TASK_BUSY"
    /\ owner_tid \notin {0, ev.task}
    /\ mutex_is_valid

\* the calls that work on m, on c, and on both
MutexOps == {"lock", "trylock", "timedlock", "unlock", "block", "timedlock_block"}

CondOps == {"signal", "broadcast"}

WaitOps == {"wait", "timedwait", "cond_block"}

\* task t invokes a mutex or condition variable operation on an object
\* whose magic tag is not the valid one
InvokesOnInvalid(t) ==
    \/ ~mutex_is_valid /\ Invokes(t, MutexOps \cup WaitOps)
    \/ ~cond_is_valid /\ Invokes(t, CondOps \cup WaitOps)

C14_CondFifo ==
    [][/\ (cond_is_valid /\ ev'.op = "signal" /\ ~list_is_empty(c_waiters))
            => /\ c_waiters' = Tail(c_waiters)
               /\ state'[Head(c_waiters)] = "READY"
               /\ delay'[Head(c_waiters)] = 0
               /\ \A i \in 1..Len(c_waiters') :
                     state'[c_waiters'[i]] = "BLOCKED"
       /\ (cond_is_valid /\ ev'.op = "broadcast")
            => /\ c_waiters' = <<>>
               /\ \A i \in 1..Len(c_waiters) :
                     /\ state'[c_waiters[i]] = "READY"
                     /\ delay'[c_waiters[i]] = 0]_vars

\* C15: mo_mq_destroy on a queue that holds a message returns
\* ERR_MQ_NOTEMPTY and leaves the queue and its messages as they were; the
\* queue is freed only when it holds no message.
C15_DestroyOnlyEmpty ==
    [][/\ \A t \in Tasks :
            (Len(mq_q) # 0 /\ mq_pc[t] = "top" /\ mq_ev'.task = t
                /\ mq_ev'.op \in {"destroy", "destroy_check"})
              => /\ mq_ev'.res = "ERR_MQ_NOTEMPTY"
                 /\ UNCHANGED <<mq_q, mq_live, mq_pc>>
       /\ (mq_live /\ ~mq_live') => Len(mq_q) = 0]_vars

\* the result pmp_set_region owes for region in the current state
SetRegionVerdict(region) ==
    IF region.region_id >= PMP_MAX_REGIONS THEN "ERR_PMP_INVALID_REGION"
    ELSE IF region.addr_start >= region.addr_end THEN "ERR_PMP_ADDR_RANGE"
    ELSE IF regions[region.region_id].locked # 0 THEN "ERR_PMP_LOCKED"
    ELSE "ERR_OK"

\* C16: in every reachable PMP state and for every region passed,
\* pmp_set_region rejects region_id >= 16 with ERR_PMP_INVALID_REGION, then
\* addr_start >= addr_end with ERR_PMP_ADDR_RANGE, then a locked target slot
\* with ERR_PMP_LOCKED; a rejected call changes no pmpaddr, no pmpcfg and no
\* shadow field, region_count included.
C16_SetRegionRejects ==
    \A region \in RegionInputs :
        LET r == pmp_set_region(PmpState, region) IN
        /\ r[1] = SetRegionVerdict(region)
        /\ r[1] # "ERR_OK" => r[2] = PmpState

\* C16 witness: pmp_set_region has just been refused on a locked slot.
C16_Witness ==
    /\ pmp_ev.op = "set"
    /\ pmp_ev.res = "ERR_PMP_LOCKED"
    /\ regions[pmp_ev.idx].locked # 0

\* C17: in every reachable PMP state and for every region r, after a
\* successful pmp_set_region(cfg, r), pmp_get_region(cfg, r.region_id, out)
\* returns ERR_OK with out.addr_start, addr_end,
\* permissions, priority and locked equal to those of r.
C17_SetGetRoundTrip ==
    \A region \in RegionInputs :
        LET r == pmp_set_region(PmpState, region) IN
        r[1] = "ERR_OK"
          => LET got == pmp_get_region(r[2], region.region_id) IN
             /\ got[1] = "ERR_OK"
             /\ got[2].addr_start = region.addr_start
             /\ got[2].addr_end = region.addr_end
             /\ got[2].permissions = region.permissions
             /\ got[2].priority = region.priority
             /\ got[2].locked = region.locked

\* C17 witness: pmp_get_region has just read back a locked region written
\* by pmp_set_region.
C17_Witness ==
    /\ pmp_ev.op = "get"
    /\ pmp_ev.res = "ERR_OK"
    /\ pmp_ev.out.addr_start < pmp_ev.out.addr_end
    /\ pmp_ev.out.priority = PMP_PRIORITY_STACK
    /\ pmp_ev.out.locked = 1

\* a shadow entry that pmp_disable_region or pmp_init left disabled
ShadowDisabled(region) == region.addr_start = 0 /\ region.addr_end = 0

\* C18: in every state reached by pmp_init, pmp_set_region,
\* pmp_disable_region and pmp_lock_region, the pmpcfg byte of every slot has
\* R/W/X equal to the shadow permissions, A = TOR for a configured region
\* and A = OFF for a shadow-disabled one, and L set exactly when the shadow
\* locked flag is set.
C18_ShadowMatchesCfg ==
    \A i \in RegionSlots :
        LET byte == CfgByte(pmpcfg, i) IN
        /\ BitAnd(byte, BitOr(PMPCFG_R, BitOr(PMPCFG_W, PMPCFG_X)))
              = regions[i].permissions
        /\ BitAnd(byte, PMPCFG_A_MASK)
              = IF ShadowDisabled(regions[i]) THEN 0 ELSE PMPCFG_A_TOR
        /\ (BitAnd(byte, PMPCFG_L) # 0) <=> (regions[i].locked # 0)

\* C18 witness: slot 0 configured and then locked by pmp_lock_region, slot 1
\* configured and disabled again.
C18_Witness ==
    /\ pmp_ev.op = "lock"
    /\ pmp_ev.idx = 0
    /\ ~ShadowDisabled(regions[0])
    /\ regions[0].locked # 0
    /\ ShadowDisabled(regions[1])
    /\ pmpaddr[1] # 0

\* C19: while the shadow entry of a slot is locked, no pmp_set_region and
\* no pmp_disable_region changes the entry, its pmpcfg byte or its pmpaddr;
\* the lock goes away only by pmp_init, called directly or through
\* pmp_init_pools.
C19_LockedIsFrozen ==
    [][\A i \in RegionSlots :
        regions[i].locked # 0
          => /\ pmp_ev'.op \in {"set", "disable"}
                  => /\ regions'[i] = regions[i]
                     /\ CfgByte(pmpcfg', i) = CfgByte(pmpcfg, i)
                     /\ pmpaddr'[i] = pmpaddr[i]
             /\ regions'[i].locked = 0
                  => pmp_ev'.op \in {"init", "init_pools"}]_vars

\* C19 witness: pmp_disable_region has just been refused on a configured
\* locked slot while its neighbour in the same pmpcfg register was changed
\* after the lock.
C19_Witness ==
    /\ pmp_ev.op = "disable"
    /\ pmp_ev.res = "ERR_PMP_LOCKED"
    /\ ~ShadowDisabled(regions[pmp_ev.idx])
    /\ \E j \in 0..MaxRegion : j # pmp_ev.idx /\ ~ShadowDisabled(regions[j])

\* the regions C20 lets decide an access: enabled and containing
\* [addr, addr + size)
Containing(addr, size) ==
    {i \in 0..(region_count - 1) :
        /\ ~ShadowDisabled(regions[i])
        /\ regions[i].addr_start <= addr
        /\ addr + size <= regions[i].addr_end}

\* the result C20 describes
ClaimedAccess(addr, size, is_write, is_execute) ==
    IF Containing(addr, size) = {} THEN 0
    ELSE LET first == CHOOSE i \in Containing(addr, size) :
                        \A j \in Containing(addr, size) : i <= j
             perm == regions[first].permissions
         IN IF /\ is_write => BitAnd(perm, PMPCFG_W) # 0
               /\ is_execute => BitAnd(perm, PMPCFG_X) # 0
               /\ (~is_write /\ ~is_execute) => BitAnd(perm, PMPCFG_R) # 0
            THEN 1 ELSE 0

\* C20: pmp_check_access returns what the first enabled region, in index
\* order below region_count, with start <= addr and addr + size <= end
\* decides: 1 iff it has W for a write, X for an execute, both for both, R
\* for neither; 0 when it lacks the permission and 0 when no region contains
\* the access.
C20_CheckAccess ==
    \A addr \in 0..(AddrMod - 1), size \in 1..(AddrMod - 1),
       is_write \in BOOLEAN, is_execute \in BOOLEAN :
        pmp_check_access(PmpState, addr, size, is_write, is_execute)
          = ClaimedAccess(addr, size, is_write, is_execute)

\* the current task has marked itself BLOCKED inside a blocking primitive and
\* has not yet reached the context switch
InBlockingWindow(t) ==
    /\ task_current = t
    /\ state[t] = "BLOCKED"
    /\ pc[t] \in {"tl_yield", "cw_unlock", "cw_yield", "ctw_unlock", "ctw_yield"}

\* C26: in every reachable state at most one task is RUNNING, and a RUNNING
\* task is the one the current-task pointer names; this includes the first
\* dispatch from main and the states in which the current task has marked
\* itself BLOCKED inside mo_mutex_lock, mo_mutex_timedlock, mo_cond_wait or
\* mo_cond_timedwait and has not yet switched context (then no task is
\* RUNNING).
C26_OneRunning ==
    /\ Cardinality({u \in AllTasks : state[u] = "RUNNING"}) <= 1
    /\ \A u \in AllTasks : state[u] = "RUNNING" => task_current = u

\* the current task sits BLOCKED between its state change and its yield
\* while another task is READY
C26_Witness ==
    \E t \in Tasks :
        /\ InBlockingWindow(t)
        /\ \E u \in Tasks \ {t} : state[u] = "READY"
        /\ \A u \in AllTasks : state[u] # "RUNNING"

\* C29: mo_cond_wait always releases the mutex: a caller that is BLOCKED and
\* on c's waiter list while it still owns m is the current task (it has not
\* been descheduled), so a timer preemption between the end of the critical
\* section and the call of mo_mutex_unlock cannot leave a BLOCKED,
\* unscheduled task holding m.
C29_WaitReleasesMutex ==
    \A t \in Tasks :
        (pc[t] = "cw_unlock" /\ state[t] = "BLOCKED" /\ owner_tid = t)
            => task_current = t

\* C30: the BLOCKED-state validation of mo_mutex_unlock, mo_cond_signal and
\* mo_cond_broadcast never fails: on valid objects no call ends in
\* panic(ERR_SEM_OPERATION), also when a waiter's delay expired just before
\* the unlock or the signal.
C30_ValidationNeverFails ==
    panicked => ev.path = "invalid"

\* C28: every return of mo_mutex_lock (the non-recursive rejection, the
\* fast path, and the slow path after the wake-up) leaves the spinlock of
\* the mutex subsystem released and the caller's interrupt enable equal to
\* what it was before the call.
C28_LockPathsRestore ==
    Returned("lock") =>
        /\ spin.lock = 0
        /\ spin.mie[ev.task] = spin.at_call[ev.task]

\* what a successful pmp_init_pools(pools) leaves in state s: slot i holds
\* the end address of pool i and the byte TOR | R/W/X bits of pool i, and
\* region_count is the number of pools
PoolsInstalled(s, pools) ==
    /\ s.region_count = Len(pools)
    /\ \A i \in 0..(Len(pools) - 1) :
        /\ s.pmpaddr[i] = pools[i + 1].end
        /\ CfgByte(s.pmpcfg, i)
             = BitOr(PMPCFG_A_TOR,
                     BitAnd(pools[i + 1].flags,
                            BitOr(PMPCFG_R, BitOr(PMPCFG_W, PMPCFG_X))))

HardwareHolds(f) ==
    /\ fpages[f].resident
    /\ BitAnd(CfgByte(pmpcfg, fpages[f].pmp_id), PMPCFG_A_MASK) # 0

\* C27: a flexpage is destroyed only after it has been evicted:
\* mo_fpage_destroy and mo_memspace_destroy never free a flexpage that is
\* still resident in a PMP hardware region, so once a flexpage (or the
\* memory space that owns it) is destroyed, no hardware region remains
\* configured for it.
C27_DestroyedAfterEvicted ==
    \A f \in FpIds : fpages[f].st = "freed" => ~HardwareHolds(f)

\* the frame words 0..33 of the frame at fp
FrameWords(fp) == {Word(fp, i) : i \in 0..33}

\* C22: when a task runs in M-mode mscratch is 0 and when a task runs in
\* U-mode mscratch is the kernel stack base, which is not 0; right after
\* mret mscratch follows the MPP field of the mstatus word of the frame
\* do_trap returned
C22_MscratchConvention ==
    /\ trap_pc = "run" =>
        /\ hart.mode = "M" => hart.mscratch = 0
        /\ hart.mode = "U" => hart.mscratch = _stack /\ hart.mscratch # 0
    /\ trap_hist.ev = "return" =>
        hart.mscratch =
            IF MSTATUS_GET_MPP(mem[Word(trap_hist.frame, 32)]) = 0
            THEN _stack ELSE 0

\* a trap taken in the user task has returned into the kernel-mode task
C22_Witness ==
    /\ trap_hist.ev = "return"
    /\ trap_hist.ctx.mode = "U"
    /\ hart.mode = "M"
    /\ tcb.cur = KernelTask

\* C23: when do_trap is called the 34 frame words hold the interrupted
\* context (30 registers, mcause, mepc, mstatus, stack pointer), all 34 have
\* been stored by this entry, and a0, a1, a2 are the stored mcause, the
\* stored mepc and the frame address
C23_FrameCompleteAtDoTrap ==
    trap_pc \in {"do_trap_m", "do_trap_u"} =>
        LET fp == hart.x["a2"]
            ctx == trap_hist.ctx
        IN /\ hart.sp = fp
           /\ trap_hist.stores = FrameWords(fp)
           /\ \A i \in 0..29 : mem[Word(fp, i)] = ctx.x[FrameRegs[i + 1]]
           /\ mem[Word(fp, 30)] = ctx.mcause
           /\ mem[Word(fp, 31)] = ctx.pc
           /\ mem[Word(fp, 32)] = hart.mstatus
           /\ MSTATUS_GET_MPP(mem[Word(fp, 32)]) = (IF ctx.mode = "U" THEN 0 ELSE 3)
           /\ mem[Word(fp, 33)] = ctx.sp
           /\ hart.x["a0"] = mem[Word(fp, 30)]
           /\ hart.x["a1"] = mem[Word(fp, 31)]

\* the M-mode entry has run after an earlier U-mode entry left the user
\* task's frame on the kernel stack
C23_Witness ==
    /\ trap_pc = "do_trap_m"
    /\ tcb.frame[UserTask] = _stack - ISR_CONTEXT_SIZE
    /\ trap_hist.ctx.mcause = MCAUSE_INT + MCAUSE_MTI

C25_FaultPanicsForever ==
    [][/\ (/\ trap_pc \in {"do_trap_m", "do_trap_u"}
           /\ ~MCAUSE_IS_INTERRUPT(hart.x["a0"])
           /\ hart.x["a0"] # MCAUSE_ECALL_UMODE) => trap_pc' = "panic"
       /\ trap_pc = "panic" => trap_pc' = "panic" /\ hart' = hart]_vars

\* the user task executed csrr mstatus and the kernel panicked
C25_Witness ==
    /\ trap_pc = "panic"
    /\ trap_hist.ctx.mode = "U"
    /\ trap_hist.ctx.mcause = MCAUSE_ILLEGAL_INST

\* number of times task t is enqueued on the waiter list q
Enqueued(q, t) == Cardinality({i \in 1..Len(q) : q[i] = t})

\* C31: no task is enqueued more than once over the waiter lists of the
\* mutex and the condition variable together
C31_OneListOnce ==
    \A t \in AllTasks : Enqueued(m_waiters, t) + Enqueued(c_waiters, t) <= 1

\* C39: a mutex with a waiter is owned
C39_WaitersImplyOwned == m_waiters # <<>> => owner_tid # 0

\* mo_mutex_unlock has handed the mutex to the head waiter and a waiter is
\* left on the list
C39_Witness ==
    /\ Returned("unlock")
    /\ ev.res = "ERR_OK"
    /\ owner_tid \notin {0, ev.task}
    /\ m_waiters # <<>>

\* C35: a task blocked in mo_mutex_lock eventually returns ERR_OK from it
\* owning the mutex
C35_StarvationFree ==
    \A t \in 1..NTasks :
        (pc[t] = "lock_woken" /\ call[t] = "lock")
            ~> (Returned("lock") /\ ev.task = t /\ ev.res = "ERR_OK"
                /\ owner_tid = t)

\* C34: no other queue operation takes effect between the emptiness check
\* of mo_mq_destroy and its free: a queue that passed the check or was freed
\* holds no message
C34_DestroyAtomic ==
    /\ \A t \in Tasks : mq_pc[t] = "destroy_free" => mq_q = <<>>
    /\ ~mq_live => mq_q = <<>>

\* C33: when pmp_check_access allows an access, some enabled region below
\* region_count holds every byte of [addr, addr + size), the end taken
\* without wrap-around
C33_AllowedIsInside ==
    \A addr \in 0..(AddrMod - 1), size \in 1..(AddrMod - 1),
       is_write \in BOOLEAN, is_execute \in BOOLEAN :
        pmp_check_access(PmpState, addr, size, is_write, is_execute) = 1
          => \E i \in 0..(region_count - 1) :
                /\ regions[i].addr_start <= addr
                /\ addr + size <= regions[i].addr_end

\* slot j is the same in PMP states a and b: configuration byte, address
\* register and shadow entry
SameSlot(a, b, j) ==
    /\ CfgByte(a.pmpcfg, j) = CfgByte(b.pmpcfg, j)
    /\ a.pmpaddr[j] = b.pmpaddr[j]
    /\ a.regions[j] = b.regions[j]

\* C38: an accepted pmp_set_region or pmp_disable_region on slot i leaves
\* every other slot as it was; the disable also leaves pmpaddr, priority,
\* locked flag of slot i and region_count as they were, and zeroes the
\* configuration byte and the shadow start, end and permissions of slot i
C38_OnlySlotChanges ==
    /\ \A i \in RegionSlots, l \in 0..1 :
        LET r == pmp_set_region(PmpState,
                    [addr_start |-> 1, addr_end |-> AddrMod - 1,
                     permissions |-> BitOr(PMPCFG_R, BitOr(PMPCFG_W, PMPCFG_X)),
                     priority |-> PMP_PRIORITY_STACK, region_id |-> i,
                     locked |-> l])
        IN r[1] = "ERR_OK" =>
            \A j \in RegionSlots \ {i} : SameSlot(r[2], PmpState, j)
    /\ \A i \in RegionSlots :
        LET r == pmp_disable_region(PmpState, i)
        IN r[1] = "ERR_OK" =>
            /\ \A j \in RegionSlots \ {i} : SameSlot(r[2], PmpState, j)
            /\ r[2].pmpaddr[i] = pmpaddr[i]
            /\ r[2].regions[i].priority = regions[i].priority
            /\ r[2].regions[i].locked = regions[i].locked
            /\ r[2].region_count = region_count
            /\ CfgByte(r[2].pmpcfg, i) = 0
            /\ r[2].regions[i].addr_start = 0
            /\ r[2].regions[i].addr_end = 0
            /\ r[2].regions[i].permissions = 0

\* slot 1 has been disabled while slot 0, in the same pmpcfg register, is
\* still configured
C38_Witness ==
    /\ pmp_ev.op = "disable"
    /\ pmp_ev.idx = 1
    /\ pmp_ev.res = "ERR_OK"
    /\ CfgByte(pmpcfg, 0) # 0
    /\ pmpaddr[1] # 0

\* the decision of the PMP hardware in TOR mode from slot i on: slot i
\* covers [pmpaddr[i-1], pmpaddr[i]), with 0 below slot 0; the lowest slot
\* in TOR mode that covers a byte of the access decides, and allows the
\* access when it covers all of it and its R/W/X bits grant the request
RECURSIVE TorFrom(_, _, _, _, _)
TorFrom(s, i, addr, size, req) ==
    IF i >= PMP_MAX_REGIONS THEN 0
    ELSE LET byte == CfgByte(s.pmpcfg, i)
             lo == IF i = 0 THEN 0 ELSE s.pmpaddr[i - 1]
             hi == s.pmpaddr[i]
         IN IF /\ BitAnd(byte, PMPCFG_A_MASK) = PMPCFG_A_TOR
               /\ \E a \in addr..(addr + size - 1) : lo <= a /\ a < hi
            THEN (IF /\ lo <= addr
                     /\ addr + size <= hi
                     /\ BitAnd(byte, req) = req
                  THEN 1 ELSE 0)
            ELSE TorFrom(s, i + 1, addr, size, req)

\* C32: for every access whose end addr + size stays below the top of the
\* address space (so that the sum does not wrap), pmp_check_access on the
\* shadow decides as the TOR hardware does on the pmpaddr and pmpcfg
\* registers
C32_ShadowMatchesHardware ==
    \A addr \in 0..(AddrMod - 1), size \in 1..(AddrMod - 1),
       is_write \in BOOLEAN, is_execute \in BOOLEAN :
        addr + size < AddrMod =>
            pmp_check_access(PmpState, addr, size, is_write, is_execute)
              = TorFrom(PmpState, 0, addr, size,
                        required_perm(is_write, is_execute))

\* the trap being returned from was a timer interrupt and do_trap returned
\* the frame _isr had written, which a timer interrupt leaves as saved
SameFrameReturn ==
    /\ trap_hist.ev = "return"
    /\ MCAUSE_IS_INTERRUPT(trap_hist.ctx.mcause)
    /\ Word(trap_hist.frame, 0) \in trap_hist.stores

\* C37: when do_trap returns the frame it was given, unmodified, the code
\* after mret runs in the interrupted context: the 30 general registers, sp,
\* the program counter (mepc), the privilege mode (mstatus.MPP) and the
\* interrupt enable (mstatus.MPIE) are those of the moment of the trap
C37_TrapRoundTrip ==
    SameFrameReturn =>
        /\ hart.x = trap_hist.ctx.x
        /\ hart.sp = trap_hist.ctx.sp
        /\ hart.pc = trap_hist.ctx.pc
        /\ hart.mepc = trap_hist.ctx.pc
        /\ hart.mode = trap_hist.ctx.mode
        /\ MIE(hart.mstatus) = MIE(trap_hist.ctx.mstatus)

\* the user task, running on a stack pointer of its own choice, has been
\* interrupted and resumed
C37_Witness ==
    /\ SameFrameReturn
    /\ trap_hist.ctx.mode = "U"
    /\ trap_hist.ctx.sp = MALICIOUS_SP
    /\ hart.mode = "U"

\* C36: when _isr has finished its entry path, it has taken the U-mode path
\* exactly when the trap interrupted U-mode code, that is when the mstatus
\* it saved has MPP = 0
C36_EntryClassification ==
    trap_hist.ev = "entry" =>
        /\ (trap_pc = "do_trap_u") <=> (trap_hist.ctx.mode = "U")
        /\ (trap_pc = "do_trap_u") <=> (MSTATUS_GET_MPP(hart.mstatus) = 0)

\* C40: a hart other than hart 0 never reaches main, never writes mtvec,
\* never enables an interrupt in mie, and stores to memory only before
\* hart 0 has entered main
C40_ParkedHartsInert ==
    /\ \A h \in Harts \ {0} :
        /\ eh[h].pc # "main"
        /\ eh[h].mtvec = "reset"
        /\ eh[h].mie = 0
    /\ ~(entry_ev.op = "sw" /\ entry_ev.hart # 0 /\ entry_ev.main_entered)

====
